---- MODULE Spec2Model ----
(***************************************************************************)
(* Model of libs/aws/langchain_aws/llms/bedrock.py: the Bedrock adapter    *)
(* (LLMInputOutputAdapter) and its streaming decoders.                     *)
(*                                                                         *)
(* Texts are finite sequences of one-character strings, so that string     *)
(* concatenation is \o and the empty string is << >>.                      *)
(***************************************************************************)
EXTENDS Integers, Sequences, FiniteSets, TLC

\* Number of events one transport stream can deliver.
MaxEvents == 3

----------------------------------------------------------------------------
\* Providers: the seven of provider_to_output_key_map, "ai21" (known to
\* prepare_input, no output key) and "other" (an id the code does not name).
Providers == {"anthropic", "amazon", "cohere", "deepseek", "meta", "mistral",
              "writer", "ai21", "other"}

\* The output-key table with a default entry for providers it does not name.
provider_to_output_key_map_Default(p) ==
  CASE p = "anthropic" -> "completion"
    [] p = "amazon"    -> "outputText"
    [] p = "cohere"    -> "text"
    [] p = "deepseek"  -> "choices"
    [] p = "meta"      -> "generation"
    [] p = "mistral"   -> "outputs"
    [] p = "writer"    -> "choices"
    [] OTHER           -> "outputText"

\* LLMInputOutputAdapter.provider_to_output_key_map; "" stands for no entry.
provider_to_output_key_map(p) ==
  CASE p = "anthropic" -> "completion"
    [] p = "amazon"    -> "outputText"
    [] p = "cohere"    -> "text"
    [] p = "deepseek"  -> "choices"
    [] p = "meta"      -> "generation"
    [] p = "mistral"   -> "outputs"
    [] p = "writer"    -> "choices"
    [] OTHER           -> ""

\* Text pieces.
TA == <<"a">>
TB == <<"b">>
EOS_TOKEN == <<"<EOS_TOKEN>">>
DONE == <<"[DONE]">>

\* The value of the key "amazon-bedrock-invocationMetrics" of a decoded
\* payload; the key itself is listed in the event's keys when present.
NoMetrics == [inputTokenCount |-> 0, outputTokenCount |-> 0,
              cacheReadInputTokenCount |-> 0, cacheWriteInputTokenCount |-> 0]
SomeMetrics == [inputTokenCount |-> 3, outputTokenCount |-> 2,
                cacheReadInputTokenCount |-> 1, cacheWriteInputTokenCount |-> 0]

(***************************************************************************)
(* A transport event.  payload: "none" (no 'chunk'), "invalid" (bytes that *)
(* are not JSON), "str" (a JSON string, its value in text) or "obj" (a     *)
(* JSON object).  For an object, keys holds the keys that are present:     *)
(*   "out"          the provider's output field (text is its text),        *)
(*   "is_finished", "stop_reason", "finish_reason", "metrics",             *)
(*   "type", "content_block", "delta", "index" (messages protocol).        *)
(* stop_reason / finish_reason sit where the provider's predicate reads    *)
(* them (inside the first element of the output array for deepseek and     *)
(* mistral, at top level for meta, inside delta for message_delta).        *)
(* btype is content_block.type or delta.type; btype = "" with the key      *)
(* "delta" present is an empty delta.                                      *)
(***************************************************************************)
BaseEvent ==
  [payload |-> "obj", keys |-> {}, type |-> "", btype |-> "", index |-> 0,
   id |-> "", name |-> "", text |-> <<>>, is_finished |-> FALSE,
   stop_reason |-> "", finish_reason |-> "", metrics |-> NoMetrics]

Raw(keys, text, fin, sr, fr) ==
  [BaseEvent EXCEPT !.keys = keys, !.text = text, !.is_finished = fin,
                    !.stop_reason = sr, !.finish_reason = fr,
                    !.metrics = IF "metrics" \in keys THEN SomeMetrics
                                ELSE NoMetrics]

Msg(type, keys, btype, index, id, name, text, sr) ==
  [BaseEvent EXCEPT !.keys = keys \cup {"type"}, !.type = type,
                    !.btype = btype, !.index = index, !.id = id,
                    !.name = name, !.text = text, !.stop_reason = sr,
                    !.metrics = IF "metrics" \in keys THEN SomeMetrics
                                ELSE NoMetrics]

NoPayload == [BaseEvent EXCEPT !.payload = "none"]
InvalidJson == [BaseEvent EXCEPT !.payload = "invalid"]
DoneString == [BaseEvent EXCEPT !.payload = "str", !.text = DONE]

\* Events of a raw-prompt (non-messages) stream.
RawEvents ==
  { NoPayload, InvalidJson, DoneString,
    Raw({"out"}, TA, FALSE, "", ""),
    Raw({"out", "is_finished", "metrics"}, TB, FALSE, "", ""),
    Raw({"out", "is_finished"}, TA, TRUE, "", ""),
    Raw({"out", "is_finished"}, EOS_TOKEN, FALSE, "", ""),
    Raw({"out", "stop_reason", "metrics"}, TA, FALSE, "stop", ""),
    Raw({"out", "stop_reason"}, TB, FALSE, "length", ""),
    Raw({"out", "finish_reason", "is_finished"}, TB, FALSE, "", "eos_token"),
    Raw({"stop_reason"}, <<>>, FALSE, "stop", ""),
    Raw({"is_finished"}, <<>>, TRUE, "", ""),
    Raw({"is_finished", "metrics"}, <<>>, TRUE, "", "") }

\* Events of a messages-protocol stream.
MessageEvents ==
  { NoPayload, InvalidJson,
    Msg("message_start", {}, "", 0, "", "", <<>>, ""),
    Msg("content_block_start", {"content_block", "index"}, "tool_use", 0,
        "id0", "f", <<>>, ""),
    Msg("content_block_start", {"content_block", "index"}, "tool_use", 1,
        "id1", "g", <<>>, ""),
    Msg("content_block_start", {"content_block", "index"}, "text", 0,
        "", "", <<>>, ""),
    Msg("content_block_delta", {"delta", "index"}, "text_delta", 0,
        "", "", TA, ""),
    Msg("content_block_delta", {"delta", "index"}, "text_delta", 1,
        "", "", TB, ""),
    Msg("content_block_delta", {"delta", "index"}, "input_json_delta", 0,
        "", "", TA, ""),
    Msg("content_block_delta", {"delta", "index"}, "input_json_delta", 0,
        "", "", TB, ""),
    Msg("content_block_delta", {"delta", "index"}, "input_json_delta", 1,
        "", "", TB, ""),
    Msg("content_block_delta", {"delta", "index"}, "thinking_delta", 0,
        "", "", TA, ""),
    Msg("content_block_delta", {"delta", "index"}, "signature_delta", 0,
        "", "", TB, ""),
    Msg("content_block_delta", {"delta", "index"}, "citations_delta", 0,
        "", "", <<>>, ""),
    Msg("content_block_delta", {"delta", "index"}, "", 0, "", "", <<>>, ""),
    Msg("message_delta", {"delta"}, "", 0, "", "", <<>>, "end_turn"),
    Msg("message_stop", {"metrics"}, "", 0, "", "", <<>>, ""),
    Msg("message_stop", {}, "", 0, "", "", <<>>, ""),
    Msg("ping", {}, "", 0, "", "", <<>>, "") }

EventsFor(api) == IF api THEN MessageEvents ELSE RawEvents

(***************************************************************************)
(* Chunks.  kind: "gen" (GenerationChunk built from a raw event), "ai"     *)
(* (AIMessageChunk), "usage" (the GenerationChunk of                       *)
(* _get_invocation_metrics_chunk).  shape tells whether content is a       *)
(* string ("str", the string in text) or a list of blocks ("list").        *)
(* ev is the position in the stream of the event the chunk was built from. *)
(***************************************************************************)
NoUsage == [present |-> FALSE, input_tokens |-> 0, output_tokens |-> 0,
            total_tokens |-> 0, cache_creation |-> 0, cache_read |-> 0]

BaseChunk ==
  [kind |-> "gen", ev |-> 0, shape |-> "str", text |-> <<>>,
   blocks |-> <<>>, tool_call_chunks |-> <<>>,
   info_keys |-> {}, stop_reason |-> "", metrics |-> NoMetrics,
   usage_metadata |-> NoUsage]

\* Result of a call that may raise or return None.
Raised == [raised |-> TRUE, none |-> FALSE, chunk |-> BaseChunk]
None == [raised |-> FALSE, none |-> TRUE, chunk |-> BaseChunk]
Returned(c) == [raised |-> FALSE, none |-> FALSE, chunk |-> c]

----------------------------------------------------------------------------
\* A content block of an AIMessageChunk and a tool-call chunk.
Block(type, index, text, id, name) ==
  [type |-> type, index |-> index, text |-> text, id |-> id, name |-> name]

ToolCallChunk(index, id, name, args) ==
  [index |-> index, id |-> id, name |-> name, args |-> args]

\* Python's None in a tool-call chunk's id and name.
Null == "null"

\* AIMessageChunk(content=<string>)
AIText(text) == [BaseChunk EXCEPT !.kind = "ai", !.shape = "str", !.text = text]

\* AIMessageChunk(content=[...], tool_call_chunks=[...])
AIBlocks(blocks, tcs) ==
  [BaseChunk EXCEPT !.kind = "ai", !.shape = "list", !.blocks = blocks,
                    !.tool_call_chunks = tcs]

\* Lines 107-123: content_block_start of a tool_use block.
tool_use_start_chunk(e) ==
  IF "index" \notin e.keys THEN Raised
  ELSE Returned(AIBlocks(<<Block("tool_use", e.index, <<>>, e.id, e.name)>>,
                         <<ToolCallChunk(e.index, e.id, e.name, <<>>)>>))

\* text_delta_chunk giving the plain text whatever the flag.
text_delta_chunk_AlwaysPlain(e, coerce) == Returned(AIText(e.text))

\* Lines 127-134: text_delta.
text_delta_chunk(e, coerce) ==
  IF coerce THEN Returned(AIText(e.text))
  ELSE IF "index" \notin e.keys THEN Raised
  ELSE Returned(AIBlocks(<<Block("text", e.index, e.text, "", "")>>, <<>>))

\* input_json_delta attributing every fragment to block 0.
input_json_delta_chunk_Index0(e) ==
  IF "index" \notin e.keys THEN Raised
  ELSE Returned(AIBlocks(<<Block("tool_use", 0, e.text, "", "")>>,
                         <<ToolCallChunk(0, Null, Null, e.text)>>))

\* Lines 135-148: input_json_delta.
input_json_delta_chunk(e) ==
  IF "index" \notin e.keys THEN Raised
  ELSE Returned(AIBlocks(<<Block("tool_use", e.index, e.text, "", "")>>,
                         <<ToolCallChunk(e.index, Null, Null, e.text)>>))

\* Lines 149-158: thinking_delta and signature_delta.
thinking_chunk(e) ==
  IF "index" \notin e.keys THEN Raised
  ELSE Returned(AIBlocks(<<Block("thinking", e.index, e.text, "", "")>>, <<>>))

\* Lines 159-166: message_delta.
message_delta_chunk(e) ==
  IF "delta" \notin e.keys THEN Raised
  ELSE Returned([AIText(<<>>) EXCEPT
                   !.info_keys = {"stop_reason", "stop_sequence"},
                   !.stop_reason = e.stop_reason])

\* Lines 124-158: content_block_delta.  A delta type with no branch leaves
\* the if statement of line 101 without a return, and line 178 then reads
\* stream_response[output_key], a key the events of a messages stream do
\* not hold.
content_block_delta_chunk(e, coerce) ==
  IF "delta" \notin e.keys THEN Raised                          \* KeyError
  ELSE IF e.btype = "" THEN Returned(AIText(<<>>))              \* empty delta
  ELSE IF e.btype = "text_delta" THEN text_delta_chunk(e, coerce)
  ELSE IF e.btype = "input_json_delta" THEN input_json_delta_chunk(e)
  ELSE IF e.btype \in {"thinking_delta", "signature_delta"}
    THEN thinking_chunk(e)
  ELSE Raised                                                   \* KeyError

\* The messages-protocol branch of _stream_response_to_generation_chunk
\* (lines 101-168); msg_type is stream_response.get("type").
message_chunk(e, coerce) ==
  IF e.payload = "str" THEN Raised                   \* str has no .get
  ELSE
    LET msg_type == IF "type" \in e.keys THEN e.type ELSE "" IN
    IF msg_type = "message_start"
      THEN Returned(IF coerce THEN AIText(<<>>) ELSE AIBlocks(<<>>, <<>>))
    ELSE IF msg_type = "content_block_start" /\ "content_block" \notin e.keys
      THEN Raised                                     \* KeyError
    ELSE IF msg_type = "content_block_start" /\ e.btype = "tool_use"
      THEN tool_use_start_chunk(e)
    ELSE IF msg_type = "content_block_delta"
      THEN content_block_delta_chunk(e, coerce)
    ELSE IF msg_type = "message_delta"
      THEN message_delta_chunk(e)
    ELSE None

\* Keys that live inside the first element of the output array, and so
\* never reach generation_info, for the providers that wrap their output.
NestedKeys(provider) ==
  IF provider \in {"mistral", "deepseek", "writer"}
  THEN {"stop_reason", "finish_reason"} ELSE {}

\* raw_chunk reading the output field with a default: an event without the
\* field gives a chunk of empty text.
raw_chunk_Lenient(e, provider) ==
  IF e.payload = "str" THEN Raised
  ELSE Returned([BaseChunk EXCEPT
         !.kind = "gen",
         !.text = IF "out" \in e.keys THEN e.text ELSE <<>>,
         !.info_keys = (e.keys \ {"out"}) \ NestedKeys(provider),
         !.stop_reason = IF "stop_reason" \in e.keys \ NestedKeys(provider)
                         THEN e.stop_reason ELSE "",
         !.metrics = e.metrics])

\* The raw-prompt branch of _stream_response_to_generation_chunk.
raw_chunk(e, provider) ==
  IF e.payload = "str" THEN Raised                   \* str has no .items
  ELSE IF "out" \notin e.keys THEN Raised            \* KeyError
  ELSE Returned([BaseChunk EXCEPT
         !.kind = "gen", !.text = e.text,
         !.info_keys = (e.keys \ {"out"}) \ NestedKeys(provider),
         !.stop_reason = IF "stop_reason" \in e.keys \ NestedKeys(provider)
                         THEN e.stop_reason ELSE "",
         !.metrics = e.metrics])

stream_response_to_generation_chunk(e, provider, messages_api, coerce) ==
  IF messages_api THEN message_chunk(e, coerce) ELSE raw_chunk(e, provider)

get_invocation_metrics_chunk(e) ==
  [BaseChunk EXCEPT
     !.kind = "usage", !.text = <<>>,
     !.info_keys = IF "metrics" \in e.keys THEN {"usage_metadata"} ELSE {},
     !.usage_metadata =
        IF "metrics" \in e.keys
        THEN [present |-> TRUE,
              input_tokens |-> e.metrics.inputTokenCount,
              output_tokens |-> e.metrics.outputTokenCount,
              total_tokens |-> e.metrics.inputTokenCount
                               + e.metrics.outputTokenCount,
              cache_creation |-> e.metrics.cacheWriteInputTokenCount,
              cache_read |-> e.metrics.cacheReadInputTokenCount]
        ELSE NoUsage]

----------------------------------------------------------------------------
(***************************************************************************)
(* The synchronous decoder, LLMInputOutputAdapter.prepare_output_stream, a *)
(* generator driven by one consumer.                                        *)
(***************************************************************************)
VARIABLES
  provider,                  \* argument provider
  messages_api,              \* argument messages_api
  coerce_content_to_string,  \* argument coerce_content_to_string
  has_body,                  \* response.get("body") is truthy
  remaining,                 \* events the transport still holds
  stream,                    \* events read from the transport so far
  pc,                        \* position of the generator
  emitted,                   \* chunks yielded so far
  demand,                    \* a next() call of the consumer is in progress
  pulls,                     \* next() calls made so far
  abandoned,                 \* the consumer has stopped pulling
  term                       \* why the generator ended

decoder_vars == <<provider, messages_api, coerce_content_to_string, has_body,
                  remaining, stream, pc, emitted, demand, pulls, abandoned,
                  term>>

\* The asynchronous decoder, aprepare_output_stream, replaying the same
\* transport stream once the synchronous run is over.
VARIABLES
  apc,       \* position of the asynchronous generator
  aemitted,  \* chunks it has yielded so far
  astream,   \* events it has read so far
  aterm      \* why it ended

async_vars == <<apc, aemitted, astream, aterm>>

\* One call of LLMInputOutputAdapter.prepare_input.
VARIABLES
  rb_pc,      \* "idle" (no call made), "called", "returned" or "raised"
  rb_args,    \* the arguments of the call
  rb_result   \* what the call returned and left behind

request_vars == <<rb_pc, rb_args, rb_result>>

\* One call of LLMInputOutputAdapter.prepare_output.
VARIABLES
  po_pc,        \* "idle" (no call made), "called", "returned" or "raised"
  po_args,      \* the provider and the response of the call
  po_result,    \* what the call returned
  po_body_read  \* the response body has been read and handed to json.loads

output_vars == <<po_pc, po_args, po_result, po_body_read>>

\* A BedrockBase instance and the calls of _prepare_input_and_invoke,
\* _prepare_input_and_invoke_stream and _aprepare_input_and_invoke_stream
\* made on it, one after the other.
VARIABLES
  self_provider,       \* what self._get_provider() returns
  self_model_kwargs,   \* self.model_kwargs: None or a dict
  self_guardrail_trace,\* guardrails are enabled with trace set
  configured_kwargs,   \* self.model_kwargs as the instance was constructed
  iv_pc,               \* "ready", "sent" (transport call in progress),
                       \* "raised" or "returned"
  iv_call,             \* the arguments of the current call
  iv_body,             \* the request body of the current call
  iv_outcome,          \* how the current call ended
  iv_reports,          \* what run_manager.on_llm_error received in this call
  iv_attempts,         \* transport calls made by the current call
  iv_ncalls,           \* calls made on the instance so far
  iv_intervened,       \* the response body, or the metadata of the chunk
                       \* delivered last, holds
                       \* 'amazon-bedrock-guardrailAction': 'INTERVENED'
  iv_nchunks,          \* chunks the current streaming call has delivered
  iv_signals           \* calls of _get_bedrock_services_signal in the
                       \* current streaming call that returned a signal

invoke_vars == <<self_provider, self_model_kwargs, self_guardrail_trace, configured_kwargs, iv_pc, iv_call, iv_body, iv_outcome, iv_reports, iv_attempts, iv_ncalls, iv_intervened, iv_nchunks, iv_signals>>

\* One call of _human_assistant_format.
VARIABLES
  fmt_pc,         \* "idle" (no call made), "called" or "returned"
  fmt_in,         \* the input text
  fmt_out,        \* the text returned and the number of warnings given
  fmt_prepended,  \* the first silent correction was applied
  fmt_norm        \* the text the alternation scan walks (after line 72)

format_vars == <<fmt_pc, fmt_in, fmt_out, fmt_prepended, fmt_norm>>

\* One call of _combine_generation_info_for_llm_result.
VARIABLES
  cb_pc,      \* "idle" (no call made), "called", "returned" or "raised"
  cb_args,    \* the list of generation_info maps and the stop-reason field
  cb_result   \* the usage and stop reason returned

combine_vars == <<cb_pc, cb_args, cb_result>>

\* The state outside the two stream decoders.
call_vars == <<request_vars, output_vars, invoke_vars, format_vars, combine_vars>>

\* Everything that is not state of the synchronous decoder.
other_vars == <<async_vars, call_vars>>

vars == <<decoder_vars, other_vars>>

\* Lines 482-485: the output key the decoder resolves.
output_key(p, api) == IF api THEN "message" ELSE provider_to_output_key_map(p)

\* chunk_obj[output_key] exists: the events of a messages stream never
\* carry a "message" key.
HasOut(e, api) == ~api /\ e.payload = "obj" /\ "out" \in e.keys

\* Lines 499-505: "return" (stream ends), "raise" or "go" (process the event).
sentinel_check(e, p, api) ==
  IF p = "writer" /\ e.payload = "str" /\ e.text = DONE THEN "return"
  ELSE IF p = "cohere"
    THEN IF e.payload = "str" \/ "is_finished" \notin e.keys THEN "raise"
         ELSE IF e.is_finished THEN "return"
         ELSE IF ~HasOut(e, api) THEN "raise"
         ELSE IF e.text = EOS_TOKEN THEN "return"
         ELSE "go"
  ELSE "go"

\* stop_check ending the stream on every event _stream_response_to_generation_chunk
\* has no branch for, not on message_stop alone.
stop_check_AnyUnrecognised(e, p, api) ==
  IF p = "deepseek"
    THEN IF HasOut(e, api)
            /\ (("stop_reason" \in e.keys /\ e.stop_reason \in {"stop", "length"})
                \/ ("finish_reason" \in e.keys /\ e.finish_reason = "eos_token"))
         THEN "stop_reason" ELSE ""
  ELSE IF p = "mistral" /\ HasOut(e, api)
          /\ "stop_reason" \in e.keys /\ e.stop_reason = "stop"
    THEN "stop_reason"
  ELSE IF p = "meta" /\ "stop_reason" \in e.keys /\ e.stop_reason = "stop"
    THEN "stop_reason"
  ELSE IF api /\ "type" \in e.keys
          /\ e.type \notin {"message_start", "content_block_start",
                            "content_block_delta", "message_delta"}
    THEN "message_stop"
  ELSE ""

\* Lines 517-536: the reason to yield the invocation-metrics chunk and
\* return, or "" when the loop goes on.
stop_check(e, p, api) ==
  IF p = "deepseek"
    THEN IF HasOut(e, api)
            /\ (("stop_reason" \in e.keys /\ e.stop_reason \in {"stop", "length"})
                \/ ("finish_reason" \in e.keys /\ e.finish_reason = "eos_token"))
         THEN "stop_reason" ELSE ""
  ELSE IF p = "mistral" /\ HasOut(e, api)
          /\ "stop_reason" \in e.keys /\ e.stop_reason = "stop"
    THEN "stop_reason"
  ELSE IF p = "meta" /\ "stop_reason" \in e.keys /\ e.stop_reason = "stop"
    THEN "stop_reason"
  ELSE IF api /\ "type" \in e.keys /\ e.type = "message_stop"
    THEN "message_stop"
  ELSE ""

At(c, k) == [c EXCEPT !.ev = k]

\* AfterChunk without the metrics chunk of the meta branch (line 531).
AfterChunk_NoMetaMetrics(e, k) ==
  LET why == stop_check(e, provider, messages_api) IN
  IF why # "" /\ provider = "meta"
  THEN /\ pc' = "done" /\ term' = why /\ demand' = FALSE
       /\ UNCHANGED emitted
  ELSE IF why # ""
  THEN /\ emitted' = Append(emitted, At(get_invocation_metrics_chunk(e), k))
       /\ pc' = "yield_metrics"
       /\ term' = why
       /\ demand' = FALSE
  ELSE /\ pc' = "loop"
       /\ UNCHANGED <<emitted, term, demand>>

\* Lines 517-536, run on event e (the k-th of the stream).
AfterChunk(e, k) ==
  LET why == stop_check(e, provider, messages_api) IN
  IF why # ""
  THEN /\ emitted' = Append(emitted, At(get_invocation_metrics_chunk(e), k))
       /\ pc' = "yield_metrics"
       /\ term' = why
       /\ demand' = FALSE
  ELSE /\ pc' = "loop"
       /\ UNCHANGED <<emitted, term, demand>>

\* YieldChunk that does not suspend the generator: the chunk is put out and
\* the generator runs on without a further next() call.
YieldChunk_NoSuspend(c, k) ==
  /\ emitted' = Append(emitted, At(c, k))
  /\ pc' = "yield_chunk"
  /\ UNCHANGED <<demand, term>>

\* Lines 514-515: the chunk is yielded and the generator is suspended until
\* the consumer's next call.
YieldChunk(c, k) ==
  /\ emitted' = Append(emitted, At(c, k))
  /\ pc' = "yield_chunk"
  /\ demand' = FALSE
  /\ UNCHANGED term

\* ProcessEvent with the stop-reason predicates evaluated before the event
\* is turned into a chunk.
ProcessEvent_StopFirst(e, k) ==
  IF e.payload = "none"
  THEN UNCHANGED <<pc, emitted, term, demand>>
  ELSE IF e.payload = "invalid"
  THEN /\ pc' = "error" /\ term' = "error" /\ demand' = FALSE
       /\ UNCHANGED emitted
  ELSE
    LET s == sentinel_check(e, provider, messages_api) IN
    IF s = "return"
    THEN /\ pc' = "done" /\ term' = "sentinel" /\ demand' = FALSE
         /\ UNCHANGED emitted
    ELSE IF s = "raise"
    THEN /\ pc' = "error" /\ term' = "error" /\ demand' = FALSE
         /\ UNCHANGED emitted
    ELSE IF stop_check(e, provider, messages_api) # ""
    THEN AfterChunk(e, k)
    ELSE
      LET r == stream_response_to_generation_chunk(
                 e, provider, messages_api, coerce_content_to_string) IN
      IF r.raised
      THEN /\ pc' = "error" /\ term' = "error" /\ demand' = FALSE
           /\ UNCHANGED emitted
      ELSE IF r.none
      THEN AfterChunk(e, k)
      ELSE YieldChunk(r.chunk, k)

\* ProcessEvent without the test of line 495: an event with no payload is
\* handed to json.loads, which raises.
ProcessEvent_NoSkip(e, k) ==
  IF e.payload \in {"none", "invalid"}
  THEN /\ pc' = "error" /\ term' = "error" /\ demand' = FALSE
       /\ UNCHANGED emitted
  ELSE
    LET s == sentinel_check(e, provider, messages_api) IN
    IF s = "return"
    THEN /\ pc' = "done" /\ term' = "sentinel" /\ demand' = FALSE
         /\ UNCHANGED emitted
    ELSE IF s = "raise"
    THEN /\ pc' = "error" /\ term' = "error" /\ demand' = FALSE
         /\ UNCHANGED emitted
    ELSE
      LET r == stream_response_to_generation_chunk(
                 e, provider, messages_api, coerce_content_to_string) IN
      IF r.raised
      THEN /\ pc' = "error" /\ term' = "error" /\ demand' = FALSE
           /\ UNCHANGED emitted
      ELSE IF r.none
      THEN AfterChunk(e, k)
      ELSE YieldChunk(r.chunk, k)

\* Lines 493-536 for one event read from the transport, up to the next
\* yield, return or raise, or back to the head of the loop.
ProcessEvent(e, k) ==
  IF e.payload = "none"
  THEN UNCHANGED <<pc, emitted, term, demand>>                  \* continue
  ELSE IF e.payload = "invalid"
  THEN /\ pc' = "error" /\ term' = "error" /\ demand' = FALSE   \* json.loads
       /\ UNCHANGED emitted
  ELSE
    LET s == sentinel_check(e, provider, messages_api) IN
    IF s = "return"
    THEN /\ pc' = "done" /\ term' = "sentinel" /\ demand' = FALSE
         /\ UNCHANGED emitted
    ELSE IF s = "raise"
    THEN /\ pc' = "error" /\ term' = "error" /\ demand' = FALSE
         /\ UNCHANGED emitted
    ELSE
      LET r == stream_response_to_generation_chunk(
                 e, provider, messages_api, coerce_content_to_string) IN
      IF r.raised
      THEN /\ pc' = "error" /\ term' = "error" /\ demand' = FALSE
           /\ UNCHANGED emitted
      ELSE IF r.none
      THEN AfterChunk(e, k)
      ELSE YieldChunk(r.chunk, k)

\* The consumer calls next() on the generator.
Pull ==
  /\ ~demand /\ ~abandoned
  /\ pc \in {"idle", "yield_chunk", "yield_metrics"}
  /\ demand' = TRUE
  /\ pulls' = pulls + 1
  /\ UNCHANGED <<provider, messages_api, coerce_content_to_string, has_body,
                 remaining, stream, pc, emitted, abandoned, term>>
  /\ UNCHANGED other_vars

\* Lines 477-490, run by the first next().
Start ==
  /\ demand /\ pc = "idle"
  /\ IF ~has_body
     THEN pc' = "done" /\ term' = "no_stream" /\ demand' = FALSE
     ELSE IF output_key(provider, messages_api) = ""
     THEN pc' = "error" /\ term' = "config_error" /\ demand' = FALSE
     ELSE pc' = "loop" /\ UNCHANGED <<term, demand>>
  /\ UNCHANGED <<provider, messages_api, coerce_content_to_string, has_body,
                 remaining, stream, emitted, pulls, abandoned>>
  /\ UNCHANGED other_vars

\* Line 492 takes the next event from the transport.
NextEvent ==
  /\ demand /\ pc = "loop" /\ remaining > 0
  /\ \E e \in EventsFor(messages_api) :
       /\ stream' = Append(stream, e)
       /\ ProcessEvent(e, Len(stream) + 1)
  /\ remaining' = remaining - 1
  /\ UNCHANGED <<provider, messages_api, coerce_content_to_string, has_body,
                 pulls, abandoned>>
  /\ UNCHANGED other_vars

\* EndOfStream putting out a usage chunk of the last event read before the
\* generator returns.
EndOfStream_WithUsage ==
  /\ demand /\ pc = "loop" /\ remaining = 0
  /\ pc' = "done" /\ term' = "exhausted" /\ demand' = FALSE
  /\ emitted' = IF stream = <<>> THEN emitted
                ELSE Append(emitted,
                            At(get_invocation_metrics_chunk(stream[Len(stream)]),
                               Len(stream)))
  /\ UNCHANGED <<provider, messages_api, coerce_content_to_string, has_body,
                 remaining, stream, pulls, abandoned>>
  /\ UNCHANGED other_vars

\* Line 492 finds the transport exhausted: the generator returns.
EndOfStream ==
  /\ demand /\ pc = "loop" /\ remaining = 0
  /\ pc' = "done" /\ term' = "exhausted" /\ demand' = FALSE
  /\ UNCHANGED <<provider, messages_api, coerce_content_to_string, has_body,
                 remaining, stream, emitted, pulls, abandoned>>
  /\ UNCHANGED other_vars

\* next() resumes the generator after the yield of line 515.
Resume ==
  /\ demand /\ pc = "yield_chunk"
  /\ AfterChunk(stream[Len(stream)], Len(stream))
  /\ UNCHANGED <<provider, messages_api, coerce_content_to_string, has_body,
                 remaining, stream, pulls, abandoned>>
  /\ UNCHANGED other_vars

\* Return without the return statement: the generator goes back to the loop.
ReturnContinues ==
  /\ demand /\ pc = "yield_metrics"
  /\ pc' = "loop"
  /\ UNCHANGED <<provider, messages_api, coerce_content_to_string, has_body,
                 remaining, stream, emitted, demand, pulls, abandoned, term>>
  /\ UNCHANGED other_vars

\* next() resumes the generator after the yield of the metrics chunk
\* (lines 520, 527, 531, 535): it returns.
Return ==
  /\ demand /\ pc = "yield_metrics"
  /\ pc' = "done" /\ demand' = FALSE
  /\ UNCHANGED <<provider, messages_api, coerce_content_to_string, has_body,
                 remaining, stream, emitted, pulls, abandoned, term>>
  /\ UNCHANGED other_vars

\* The consumer stops pulling while the generator is suspended.
Abandon ==
  /\ ~demand /\ ~abandoned
  /\ pc \in {"idle", "yield_chunk", "yield_metrics"}
  /\ abandoned' = TRUE
  /\ UNCHANGED <<provider, messages_api, coerce_content_to_string, has_body,
                 remaining, stream, pc, emitted, demand, pulls, term>>
  /\ UNCHANGED other_vars

\* The messages protocol is spoken by the provider "anthropic" only
\* (prepare_input, lines 293-294); coerce_content_to_string matters to that
\* protocol alone.
DecoderInit ==
  /\ provider \in Providers
  /\ messages_api \in BOOLEAN
  /\ messages_api => provider = "anthropic"
  /\ coerce_content_to_string \in BOOLEAN
  /\ ~messages_api => coerce_content_to_string
  /\ has_body \in BOOLEAN
  /\ remaining \in 0..MaxEvents
  /\ ~has_body => remaining = 0
  /\ stream = <<>>
  /\ pc = "idle"
  /\ emitted = <<>>
  /\ demand = FALSE
  /\ pulls = 0
  /\ abandoned = FALSE
  /\ term = ""

----------------------------------------------------------------------------
(***************************************************************************)
(* The asynchronous decoder, LLMInputOutputAdapter.aprepare_output_stream, *)
(* as _aprepare_input_and_invoke_stream drives it: that caller passes no   *)
(* coerce_content_to_string, so the parameter keeps its default, False.    *)
(***************************************************************************)
acoerce_content_to_string == FALSE

\* Line 552: the output key, whatever messages_api is.
aoutput_key(p) == provider_to_output_key_map(p)

\* Lines 566-575: "return", "raise" or "go".
acheck(e, p) ==
  IF p = "cohere"
    THEN IF e.payload = "str" \/ "is_finished" \notin e.keys THEN "raise"
         ELSE IF e.is_finished THEN "return"
         ELSE IF "out" \notin e.keys THEN "raise"
         ELSE IF e.text = EOS_TOKEN THEN "return"
         ELSE "go"
  ELSE IF p = "mistral"
    THEN IF e.payload = "str" THEN "raise"          \* str has no .get
         ELSE IF "out" \in e.keys /\ "stop_reason" \in e.keys
                 /\ e.stop_reason = "stop" THEN "return"
         ELSE "go"
  ELSE "go"

\* Lines 560-587 for one event.
AProcessEvent(e, k) ==
  IF e.payload = "none"
  THEN UNCHANGED <<apc, aemitted, aterm>>
  ELSE IF e.payload = "invalid"
  THEN apc' = "error" /\ aterm' = "error" /\ UNCHANGED aemitted
  ELSE
    LET s == acheck(e, provider) IN
    IF s = "return"
    THEN /\ apc' = "done" /\ UNCHANGED aemitted
         /\ aterm' = IF provider = "cohere" THEN "sentinel" ELSE "stop_reason"
    ELSE IF s = "raise"
    THEN apc' = "error" /\ aterm' = "error" /\ UNCHANGED aemitted
    ELSE
      LET r == stream_response_to_generation_chunk(
                 e, provider, messages_api, acoerce_content_to_string) IN
      IF r.raised
      THEN apc' = "error" /\ aterm' = "error" /\ UNCHANGED aemitted
      ELSE IF r.none
      THEN UNCHANGED <<apc, aemitted, aterm>>
      ELSE /\ aemitted' = Append(aemitted, At(r.chunk, k))
           /\ UNCHANGED <<apc, aterm>>

\* The synchronous run is over (returned or raised) and was not abandoned.
SyncOver == pc \in {"done", "error"}

\* Lines 547-557.
AStart ==
  /\ SyncOver /\ apc = "idle"
  /\ IF ~has_body
     THEN apc' = "done" /\ aterm' = "no_stream"
     ELSE IF aoutput_key(provider) = ""
     THEN apc' = "error" /\ aterm' = "config_error"
     ELSE apc' = "loop" /\ UNCHANGED aterm
  /\ UNCHANGED <<aemitted, astream>>
  /\ UNCHANGED decoder_vars
  /\ UNCHANGED call_vars

\* Line 559 takes the next event: the one the synchronous run read at that
\* position, or a further event the transport still holds.
ANextEvent ==
  /\ SyncOver /\ apc = "loop"
  /\ Len(astream) < Len(stream) + remaining
  /\ \E e \in EventsFor(messages_api) :
       /\ Len(astream) < Len(stream) => e = stream[Len(astream) + 1]
       /\ astream' = Append(astream, e)
       /\ AProcessEvent(e, Len(astream) + 1)
  /\ UNCHANGED decoder_vars
  /\ UNCHANGED call_vars

\* Line 559 finds the transport exhausted.
AEndOfStream ==
  /\ SyncOver /\ apc = "loop"
  /\ Len(astream) = Len(stream) + remaining
  /\ apc' = "done" /\ aterm' = "exhausted"
  /\ UNCHANGED <<aemitted, astream>>
  /\ UNCHANGED decoder_vars
  /\ UNCHANGED call_vars

AsyncInit ==
  /\ apc = "idle"
  /\ aemitted = <<>>
  /\ astream = <<>>
  /\ aterm = ""

\* Values of prepare_input: a dict is a function from keys to values, an
\* Optional argument a record [some, v], None being some = FALSE.
Some(v) == [some |-> TRUE, v |-> v]
NoText == [some |-> FALSE, v |-> <<>>]
NoInt == [some |-> FALSE, v |-> 0]
EmptyDict == [k \in {} |-> 0]

NoDict == [some |-> FALSE, v |-> EmptyDict]
NoCall == [path |-> "", stop |-> NoText, run_manager |-> FALSE]

\* d[k] = v on a copy of d.
Put(d, k, v) == (k :> v) @@ d

----------------------------------------------------------------------------
RECURSIVE Concat(_)
\* Concatenation of a sequence of texts.
Concat(ts) == IF ts = <<>> THEN <<>> ELSE Head(ts) \o Concat(Tail(ts))

----------------------------------------------------------------------------
(***************************************************************************)
(* LLMInputOutputAdapter.prepare_output.  A response is                     *)
(*   body_ok  the body decodes as JSON,                                     *)
(*   keys     the keys of the decoded body,                                 *)
(*   texts    for every key but "content", the text found on the path the   *)
(*            code follows from that key (completion, generation,           *)
(*            choices[0].text, completions[0].data.text,                    *)
(*            generations[0].text, outputs[0].text, results[0].outputText), *)
(*   content  the list of content blocks under the key "content",           *)
(*   headers  the HTTP headers that are present, with their values.         *)
(***************************************************************************)
InputTokenHeader == "x-amzn-bedrock-input-token-count"
OutputTokenHeader == "x-amzn-bedrock-output-token-count"
CacheReadHeader == "x-amzn-bedrock-cache-read-input-token-count"
CacheWriteHeader == "x-amzn-bedrock-cache-write-input-token-count"

\* headers.get(name, 0)
HeaderGet(headers, name) ==
  IF name \in DOMAIN headers THEN headers[name] ELSE 0

\* text_blocks without the test of the block type: every block's text is
\* joined.
text_blocks_AllTypes(content) ==
  Concat([i \in 1..Len(content) |-> content[i].text])

\* Lines 412-416: the text of the blocks typed "text", joined in order.
text_blocks(content) ==
  Concat([i \in 1..Len(SelectSeq(content, LAMBDA b : b.type = "text")) |->
            SelectSeq(content, LAMBDA b : b.type = "text")[i].text])

\* extract_tool_calls stopping after the first block typed "tool_use".
extract_tool_calls_FirstOnly(content) ==
  LET bs == SelectSeq(content, LAMBDA b : b.type = "tool_use")
  IN [i \in 1..(IF bs = <<>> THEN 0 ELSE 1) |->
        [name |-> bs[i].name, args |-> bs[i].text, id |-> bs[i].id]]

\* Lines 245-253: one tool call per block typed "tool_use", in order.
extract_tool_calls(content) ==
  LET bs == SelectSeq(content, LAMBDA b : b.type = "tool_use")
  IN [i \in 1..Len(bs) |-> [name |-> bs[i].name, args |-> bs[i].text,
                            id |-> bs[i].id]]

\* Lines 419-428: the first block typed "thinking".
first_thinking(content) ==
  LET bs == SelectSeq(content, LAMBDA b : b.type = "thinking")
  IN IF bs = <<>> THEN [present |-> FALSE, text |-> <<>>]
     ELSE [present |-> TRUE, text |-> bs[1].text]

\* output_path_key with the last branch taken by amazon only: any other
\* provider id has no key to read.
output_path_key_KnownOnly(p) ==
  CASE p \in {"deepseek", "writer"} -> "choices"
    [] p = "ai21"    -> "completions"
    [] p = "cohere"  -> "generations"
    [] p = "meta"    -> "generation"
    [] p = "mistral" -> "outputs"
    [] p = "amazon"  -> "results"
    [] OTHER         -> ""

\* Lines 435-446: the key a raw-prompt provider's text is read from.
output_path_key(p) ==
  CASE p \in {"deepseek", "writer"} -> "choices"
    [] p = "ai21"    -> "completions"
    [] p = "cohere"  -> "generations"
    [] p = "meta"    -> "generation"
    [] p = "mistral" -> "outputs"
    [] OTHER         -> "results"

\* A response whose body is the empty JSON object, with no header.
EmptyResponse ==
  [body_ok |-> TRUE, keys |-> {}, texts |-> <<>>, content |-> <<>>,
   stop_reason |-> "", headers |-> <<>>]

NoResult ==
  [raised |-> TRUE, text |-> <<>>, text_none |-> FALSE,
   thinking |-> [present |-> FALSE, text |-> <<>>], tool_calls |-> <<>>,
   usage |-> [prompt_tokens |-> 0, completion_tokens |-> 0,
              cache_read_input_tokens |-> 0, cache_write_input_tokens |-> 0,
              total_tokens |-> 0],
   stop_reason |-> ""]

\* header_usage with the cache-write count added into the total.
header_usage_TotalWithCacheWrite(headers) ==
  [prompt_tokens |-> HeaderGet(headers, InputTokenHeader),
   completion_tokens |-> HeaderGet(headers, OutputTokenHeader),
   cache_read_input_tokens |-> HeaderGet(headers, CacheReadHeader),
   cache_write_input_tokens |-> HeaderGet(headers, CacheWriteHeader),
   total_tokens |-> HeaderGet(headers, InputTokenHeader)
                    + HeaderGet(headers, CacheReadHeader)
                    + HeaderGet(headers, CacheWriteHeader)
                    + HeaderGet(headers, OutputTokenHeader)]

\* Lines 448-466: usage from the four token-count headers.
header_usage(headers) ==
  [prompt_tokens |-> HeaderGet(headers, InputTokenHeader),
   completion_tokens |-> HeaderGet(headers, OutputTokenHeader),
   cache_read_input_tokens |-> HeaderGet(headers, CacheReadHeader),
   cache_write_input_tokens |-> HeaderGet(headers, CacheWriteHeader),
   total_tokens |-> HeaderGet(headers, InputTokenHeader)
                    + HeaderGet(headers, CacheReadHeader)
                    + HeaderGet(headers, OutputTokenHeader)]

\* Lines 399-466.
prepare_output(p, response) ==
  IF ~response.body_ok THEN NoResult                  \* json.loads raises
  ELSE
    LET rest == [NoResult EXCEPT
                   !.raised = FALSE,
                   !.usage = header_usage(response.headers),
                   !.stop_reason = IF "stop_reason" \in response.keys
                                   THEN response.stop_reason ELSE ""]
    IN
    IF p = "anthropic"
    THEN IF "completion" \in response.keys
         THEN [rest EXCEPT !.text = response.texts["completion"]]
         ELSE IF "content" \in response.keys
         THEN [rest EXCEPT
                 !.text = text_blocks(response.content),
                 !.thinking = first_thinking(response.content),
                 !.tool_calls = extract_tool_calls(response.content)]
         ELSE rest
    ELSE IF output_path_key(p) \in response.keys
    THEN [rest EXCEPT !.text = response.texts[output_path_key(p)]]
    ELSE IF p = "meta"
    THEN [rest EXCEPT !.text_none = TRUE]            \* .get gives None
    ELSE NoResult                                     \* None[0] raises

----------------------------------------------------------------------------
(***************************************************************************)
(* Prompt texts are sequences of tokens: the markers "Human:" and          *)
(* "Assistant:", the newline "\n", the space " " and words.                *)
(***************************************************************************)
HumanMark == "Human:"
AssistantMark == "Assistant:"
NL == "\n"
HUMAN_PROMPT == <<NL, NL, HumanMark>>
ASSISTANT_PROMPT == <<NL, NL, AssistantMark>>

\* str.count(word)
Count(text, word) == Cardinality({i \in 1..Len(text) : text[i] = word})

\* str.find(word): the position of the first occurrence, -1 when absent.
Find(text, word) ==
  IF Count(text, word) = 0 THEN -1
  ELSE CHOOSE i \in 1..Len(text) :
         /\ text[i] = word
         /\ \A j \in 1..(i - 1) : text[j] # word

\* text[i : i + Len(pat)] == pat, with i a position from 1.
MatchAt(text, i, pat) ==
  /\ i + Len(pat) - 1 <= Len(text)
  /\ \A j \in 1..Len(pat) : text[i + j - 1] = pat[j]

RECURSIVE Replace(_, _, _)
\* str.replace(pat, by): the occurrences from left to right, not overlapping.
Replace(text, pat, by) ==
  IF text = <<>> THEN <<>>
  ELSE IF MatchAt(text, 1, pat)
    THEN by \o Replace(SubSeq(text, Len(pat) + 1, Len(text)), pat, by)
  ELSE <<Head(text)>> \o Replace(Tail(text), pat, by)

\* add_newlines_before without the two passes of lines 57-58 that take the
\* newlines in excess away.
add_newlines_before_NoCollapse(text, word) ==
  Replace(text, <<word>>, <<NL, NL, word>>)

\* Lines 55-58 for one word.
add_newlines_before(text, word) ==
  LET t0 == Replace(text, <<word>>, <<NL, NL, word>>)
      t1 == Replace(t0, <<NL, NL, NL, word>>, <<NL, NL, word>>)
  IN Replace(t1, <<NL, NL, NL, word>>, <<NL, NL, word>>)

\* Lines 53-59.
add_newlines_before_ha(input_text) ==
  add_newlines_before(add_newlines_before(input_text, HumanMark),
                      AssistantMark)

RECURSIVE AlternationScan_CountsEveryMarker(_, _, _, _)
\* AlternationScan advancing the count on every marker it meets, in order
\* or not.
AlternationScan_CountsEveryMarker(text, i, count, warned) ==
  IF i > Len(text) THEN [count |-> count, warnings |-> warned]
  ELSE
    LET h == MatchAt(text, i, HUMAN_PROMPT)
        c1 == IF h THEN count + 1 ELSE count
        w1 == IF h /\ count % 2 # 0 THEN warned + 1 ELSE warned
        a == MatchAt(text, i, ASSISTANT_PROMPT)
        c2 == IF a THEN c1 + 1 ELSE c1
        w2 == IF a /\ c1 % 2 # 1 THEN w1 + 1 ELSE w1
    IN AlternationScan_CountsEveryMarker(text, i + 1, c2, w2)

RECURSIVE AlternationScan(_, _, _, _)
\* Lines 73-85 from position i on: the final count and the number of
\* warnings, given the count and the warnings so far.
AlternationScan(text, i, count, warned) ==
  IF i > Len(text) THEN [count |-> count, warnings |-> warned]
  ELSE
    LET h == MatchAt(text, i, HUMAN_PROMPT)
        c1 == IF h /\ count % 2 = 0 THEN count + 1 ELSE count
        w1 == IF h /\ count % 2 # 0 THEN warned + 1 ELSE warned
        a == MatchAt(text, i, ASSISTANT_PROMPT)
        c2 == IF a /\ c1 % 2 = 1 THEN c1 + 1 ELSE c1
        w2 == IF a /\ c1 % 2 # 1 THEN w1 + 1 ELSE w1
    IN AlternationScan(text, i + 1, c2, w2)

\* prepend_human without the space after the marker.
prepend_human_NoSpace(input_text) ==
  IF \/ Count(input_text, HumanMark) = 0
     \/ /\ Find(input_text, HumanMark) > Find(input_text, AssistantMark)
        /\ Count(input_text, AssistantMark) > 0
  THEN HUMAN_PROMPT \o input_text
  ELSE input_text

\* str.rfind(word): the position of the last occurrence, -1 when absent.
FindLast(text, word) ==
  IF Count(text, word) = 0 THEN -1
  ELSE CHOOSE i \in 1..Len(text) :
         /\ text[i] = word
         /\ \A j \in (i + 1)..Len(text) : text[j] # word

\* prepend_human comparing the last occurrences of the two markers.
prepend_human_LastOccurrence(input_text) ==
  IF \/ Count(input_text, HumanMark) = 0
     \/ /\ FindLast(input_text, HumanMark) > FindLast(input_text, AssistantMark)
        /\ Count(input_text, AssistantMark) > 0
  THEN HUMAN_PROMPT \o <<" ">> \o input_text
  ELSE input_text

\* Lines 63-67: the first silent correction.
prepend_human(input_text) ==
  IF \/ Count(input_text, HumanMark) = 0
     \/ /\ Find(input_text, HumanMark) > Find(input_text, AssistantMark)
        /\ Count(input_text, AssistantMark) > 0
  THEN HUMAN_PROMPT \o <<" ">> \o input_text
  ELSE input_text

\* Lines 68-69: the second silent correction.
append_assistant(input_text) ==
  IF Count(input_text, AssistantMark) = 0
  THEN input_text \o ASSISTANT_PROMPT ELSE input_text

\* Lines 70-71.
prefix_newlines(input_text) ==
  IF input_text # <<>> /\ input_text[1] = HumanMark
  THEN <<NL, NL>> \o input_text ELSE input_text

\* Lines 63-71: the text after the silent corrections and the newlines
\* put before the markers.
normalised(input_text) ==
  add_newlines_before_ha(
    prefix_newlines(append_assistant(prepend_human(input_text))))

\* Lines 62-90: the formatted text and the number of warnings.
human_assistant_format(input_text) ==
  LET t == normalised(input_text)
      scan == AlternationScan(t, 1, 0, 0)
  IN [text |-> IF scan.count % 2 = 1 THEN t \o ASSISTANT_PROMPT ELSE t,
      warnings |-> scan.warnings]

----------------------------------------------------------------------------
(***************************************************************************)
(* LLMInputOutputAdapter.prepare_input.                                    *)
(***************************************************************************)
\* Truth value of an Optional text or list, and of an Optional number.
TruthyText(o) == o.some /\ o.v # <<>>
TruthyInt(o) == o.some /\ o.v # 0

ThinkingTypes == {"thinking", "redacted_thinking"}

\* A content item: a dict with a type, or something else (a plain string).
Item(isdict, type, tag) == [isdict |-> isdict, type |-> type, tag |-> tag]

\* A message: its role and its content, a list of items or a string.
Message(role, is_list, content) ==
  [role |-> role, is_list |-> is_list, content |-> content]

\* langchain_aws.utils.thinking_in_params: thinking mode is on in the params.
thinking_in_params(model_kwargs) ==
  "thinking" \in DOMAIN model_kwargs /\ model_kwargs["thinking"] = "enabled"

\* Lines 306-321: the guard of the reorder.
reorder_applies(messages) ==
  /\ Len(messages) >= 2
  /\ messages[Len(messages)].role = "user"
  /\ messages[Len(messages) - 1].role = "assistant"
  /\ messages[Len(messages)].is_list
  /\ \E i \in 1..Len(messages[Len(messages)].content) :
       /\ messages[Len(messages)].content[i].isdict
       /\ messages[Len(messages)].content[i].type = "tool_result"

\* Lines 326-332.
thinking_blocks(asst_content) ==
  SelectSeq(asst_content, LAMBDA b : b.isdict /\ b.type \in ThinkingTypes)

\* new_content with the two parts the other way round.
new_content_OthersFirst(asst_content) ==
  SelectSeq(asst_content, LAMBDA b : b.isdict /\ b.type \notin ThinkingTypes)
  \o thinking_blocks(asst_content)

\* Lines 337-346.
new_content(asst_content) ==
  thinking_blocks(asst_content)
  \o SelectSeq(asst_content, LAMBDA b : b.isdict /\ b.type \notin ThinkingTypes)

\* Lines 303-347: the messages list after the special handling of tool
\* results with thinking, and whether the handling raised.
reorder_thinking(messages) ==
  LET n == Len(messages) IN
  IF ~reorder_applies(messages) THEN [raised |-> FALSE, messages |-> messages]
  ELSE
    LET asst_content == messages[n - 1].content IN
    IF ~(messages[n - 1].is_list /\ asst_content # <<>>)
       \/ thinking_blocks(asst_content) = <<>>
    THEN [raised |-> FALSE, messages |-> messages]
    ELSE IF ~asst_content[1].isdict
    THEN [raised |-> TRUE, messages |-> messages]    \* str has no .get
    ELSE IF asst_content[1].type \in ThinkingTypes
    THEN [raised |-> FALSE, messages |-> messages]
    ELSE [raised |-> FALSE,
          messages |-> [messages EXCEPT
                          ![n - 1].content = new_content(asst_content)]]

\* Lines 357-362: the legacy prompt of the anthropic branch.
anthropic_prompt(body, prompt, max_tokens) ==
  IF ~TruthyText(prompt) THEN body
  ELSE
    LET b1 == Put(body, "prompt", Some(human_assistant_format(prompt.v).text))
    IN IF TruthyInt(max_tokens)
       THEN Put(b1, "max_tokens_to_sample", max_tokens.v)
       ELSE IF "max_tokens_to_sample" \notin DOMAIN b1
       THEN Put(b1, "max_tokens_to_sample", 1024)
       ELSE b1

\* anthropic_messages writing the default of 1024 over the value the model
\* parameters hold.
anthropic_messages_IgnoresModelParams(body, model_kwargs, system, messages, tools, max_tokens) ==
  LET b1 == IF tools # <<>> THEN Put(body, "tools", tools) ELSE body
      b2 == Put(b1, "anthropic_version", "bedrock-2023-05-31")
      b3 == Put(b2, "messages", messages)
      b4 == IF TruthyText(system) THEN Put(b3, "system", system.v) ELSE b3
  IN IF TruthyInt(max_tokens) THEN Put(b4, "max_tokens", max_tokens.v)
     ELSE Put(b4, "max_tokens", 1024)

\* Lines 294-355: the messages of the anthropic branch.
anthropic_messages(body, model_kwargs, system, messages, tools, max_tokens) ==
  LET b1 == IF tools # <<>> THEN Put(body, "tools", tools) ELSE body
      b2 == Put(b1, "anthropic_version", "bedrock-2023-05-31")
      b3 == Put(b2, "messages", messages)
      b4 == IF TruthyText(system) THEN Put(b3, "system", system.v) ELSE b3
  IN IF TruthyInt(max_tokens) THEN Put(b4, "max_tokens", max_tokens.v)
     ELSE IF "max_tokens" \notin DOMAIN b4 THEN Put(b4, "max_tokens", 1024)
     ELSE b4

\* Lines 364-365, 383-384, 392-393.
with_temperature(body, temperature) ==
  IF temperature.some THEN Put(body, "temperature", temperature.v) ELSE body

\* max_tokens_key with the field name 'max_tokens' for every provider.
max_tokens_key_AllMaxTokens(p) == "max_tokens"

\* Lines 369-382: the max-token field of a raw-prompt provider.
max_tokens_key(p) ==
  CASE p \in {"cohere", "mistral", "deepseek", "writer"} -> "max_tokens"
    [] p = "meta" -> "max_gen_len"
    [] OTHER -> ""

\* The fallback raising a configuration error for a provider it does not
\* know.
fallback_input_Raises(input_body, prompt, messages) ==
  [raised |-> TRUE, body |-> EmptyDict, messages |-> messages, warnings |-> 0]

\* Lines 394-395: the branch of every other provider id.
fallback_input(input_body, prompt, messages) ==
  [raised |-> FALSE, body |-> Put(input_body, "inputText", prompt),
   messages |-> messages, warnings |-> 0]

\* Lines 279-397: the request body, the caller's messages list as the call
\* leaves it, the warnings given, and whether the call raised.
prepare_input(p, model_kwargs, prompt, system, messages, tools, max_tokens, temperature) ==
  LET input_body == model_kwargs
      ok(body, msgs, w) == [raised |-> FALSE, body |-> body,
                            messages |-> msgs, warnings |-> w]
  IN
  IF p = "anthropic"
  THEN
    LET ro == IF messages # <<>> /\ thinking_in_params(model_kwargs)
              THEN reorder_thinking(messages)
              ELSE [raised |-> FALSE, messages |-> messages]
        b1 == IF messages # <<>>
              THEN anthropic_messages(input_body, model_kwargs, system,
                                      ro.messages, tools, max_tokens)
              ELSE input_body
        b2 == anthropic_prompt(b1, prompt, max_tokens)
        w == IF TruthyText(prompt)
             THEN human_assistant_format(prompt.v).warnings ELSE 0
    IN IF ro.raised
       THEN [raised |-> TRUE, body |-> EmptyDict, messages |-> messages,
             warnings |-> 0]
       ELSE ok(with_temperature(b2, temperature), ro.messages, w)
  ELSE IF p \in {"ai21", "cohere", "meta", "mistral", "deepseek", "writer"}
  THEN
    LET b1 == Put(input_body, "prompt", prompt)
        b2 == IF TruthyInt(max_tokens) /\ max_tokens_key(p) # ""
              THEN Put(b1, max_tokens_key(p), max_tokens.v) ELSE b1
    IN ok(with_temperature(b2, temperature), messages, 0)
  ELSE IF p = "amazon"
  THEN
    LET c1 == IF TruthyInt(max_tokens)
              THEN Put(model_kwargs, "maxTokenCount", max_tokens.v)
              ELSE model_kwargs
        c2 == with_temperature(c1, temperature)
    IN ok(Put(Put(EmptyDict, "inputText", prompt),
              "textGenerationConfig", c2), messages, 0)
  ELSE fallback_input(input_body, prompt, messages)

----------------------------------------------------------------------------
(***************************************************************************)
(* _combine_generation_info_for_llm_result.  A generation_info map is      *)
(*   keys            which of "usage", "metrics" (the key                  *)
(*                   amazon-bedrock-invocationMetrics) and "stop" (the     *)
(*                   provider's stop-reason field) it holds,               *)
(*   usage_keys      which of "input_tokens", "output_tokens" its usage    *)
(*                   holds, with the two arrays of counts,                 *)
(*   metrics_keys    which of "inputTokenCount", "outputTokenCount" its    *)
(*                   metrics hold, with the two counts,                    *)
(*   stop            the value under the stop-reason field: a string, or   *)
(*                   None when stop_null is set.                           *)
(***************************************************************************)
RECURSIVE Sum(_)
\* sum(list)
Sum(ns) == IF ns = <<>> THEN 0 ELSE Head(ns) + Sum(Tail(ns))

NoCombined ==
  [raised |-> FALSE, prompt_tokens |-> 0, completion_tokens |-> 0,
   total_tokens |-> 0, stop_reason |-> "", stop_null |-> FALSE]

\* add_usage reading the first element of an array-valued count only.
add_usage_FirstElementOnly(total, info) ==
  LET u1 == IF "usage" \in info.keys /\ "input_tokens" \in info.usage_keys
                /\ info.input_tokens # <<>>
            THEN [total EXCEPT !.prompt_tokens = @ + info.input_tokens[1]]
            ELSE total
      u2 == IF "usage" \in info.keys /\ "output_tokens" \in info.usage_keys
                /\ info.output_tokens # <<>>
            THEN [u1 EXCEPT !.completion_tokens = @ + info.output_tokens[1]]
            ELSE u1
      m1 == IF "metrics" \in info.keys
               /\ "inputTokenCount" \in info.metrics_keys
            THEN [u2 EXCEPT !.prompt_tokens = @ + info.inputTokenCount]
            ELSE u2
  IN IF "metrics" \in info.keys /\ "outputTokenCount" \in info.metrics_keys
     THEN [m1 EXCEPT !.completion_tokens = @ + info.outputTokenCount]
     ELSE m1

\* Lines 199-212: the counts of one map added to the running totals.
add_usage(total, info) ==
  LET u1 == IF "usage" \in info.keys /\ "input_tokens" \in info.usage_keys
            THEN [total EXCEPT !.prompt_tokens = @ + Sum(info.input_tokens)]
            ELSE total
      u2 == IF "usage" \in info.keys /\ "output_tokens" \in info.usage_keys
            THEN [u1 EXCEPT !.completion_tokens = @ + Sum(info.output_tokens)]
            ELSE u1
      m1 == IF "metrics" \in info.keys
               /\ "inputTokenCount" \in info.metrics_keys
            THEN [u2 EXCEPT !.prompt_tokens = @ + info.inputTokenCount]
            ELSE u2
  IN IF "metrics" \in info.keys /\ "outputTokenCount" \in info.metrics_keys
     THEN [m1 EXCEPT !.completion_tokens = @ + info.outputTokenCount]
     ELSE m1

\* take_stop_reason keeping the earlier value when the map's value is empty
\* or None.
take_stop_reason_SkipEmpty(total, info, has_stop_code) ==
  IF has_stop_code /\ "stop" \in info.keys
     /\ ~info.stop_null /\ info.stop # ""
  THEN [total EXCEPT !.stop_reason = info.stop, !.stop_null = FALSE]
  ELSE total

\* Lines 214-216: the stop reason of the map, when the map has the field.
take_stop_reason(total, info, has_stop_code) ==
  IF has_stop_code /\ "stop" \in info.keys
  THEN [total EXCEPT !.stop_reason = info.stop, !.stop_null = info.stop_null]
  ELSE total

RECURSIVE combine_loop(_, _, _)
\* Lines 198-216: the loop over the maps.
combine_loop(infos, has_stop_code, total) ==
  IF infos = <<>> THEN total
  ELSE combine_loop(Tail(infos), has_stop_code,
         take_stop_reason(add_usage(total, Head(infos)), Head(infos),
                          has_stop_code))

\* Lines 186-222.
combine_generation_info_for_llm_result(infos, has_stop_code) ==
  LET t == combine_loop(infos, has_stop_code, NoCombined)
  IN [t EXCEPT !.total_tokens = t.prompt_tokens + t.completion_tokens]

----------------------------------------------------------------------------
(***************************************************************************)
(* The specifications of the two stream decoders.                          *)
(***************************************************************************)
\* No prepare_input call is modelled while the decoders run.
RequestIdle ==
  /\ rb_pc = "idle"
  /\ rb_args = [provider |-> "other", model_kwargs |-> EmptyDict,
                prompt |-> NoText, system |-> NoText, messages |-> <<>>,
                tools |-> <<>>, max_tokens |-> NoInt, temperature |-> NoInt]
  /\ rb_result = [raised |-> FALSE, body |-> EmptyDict, messages |-> <<>>,
                  warnings |-> 0]

\* No prepare_output call is modelled while the decoders run.
OutputIdle ==
  /\ po_pc = "idle"
  /\ po_args = [provider |-> "other", response |-> EmptyResponse]
  /\ po_result = NoResult
  /\ po_body_read = FALSE

\* No instance is modelled while the decoders run.
InvokeIdle ==
  /\ self_provider = "other" /\ self_model_kwargs = NoDict
  /\ self_guardrail_trace = FALSE /\ configured_kwargs = NoDict
  /\ iv_pc = "idle" /\ iv_call = NoCall /\ iv_body = EmptyDict
  /\ iv_outcome = "" /\ iv_reports = <<>> /\ iv_attempts = 0
  /\ iv_ncalls = 0 /\ iv_intervened = FALSE
  /\ iv_nchunks = 0 /\ iv_signals = 0

\* No formatter call is modelled on its own.
FormatIdle ==
  /\ fmt_pc = "idle" /\ fmt_in = <<>>
  /\ fmt_out = [text |-> <<>>, warnings |-> 0]
  /\ fmt_prepended = FALSE
  /\ fmt_norm = <<>>

\* No aggregation is modelled on its own.
CombineIdle ==
  /\ cb_pc = "idle"
  /\ cb_args = [infos |-> <<>>, has_stop_code |-> FALSE]
  /\ cb_result = NoCombined

\* The calls at rest.
CallsIdle ==
  RequestIdle /\ OutputIdle /\ InvokeIdle /\ FormatIdle /\ CombineIdle

Init == DecoderInit /\ AsyncInit /\ CallsIdle

Next ==
  \/ Pull
  \/ Start
  \/ NextEvent
  \/ EndOfStream
  \/ Resume
  \/ Return
  \/ Abandon

Spec == Init /\ [][Next]_vars

\* The synchronous run followed by the asynchronous replay.
NextAsync ==
  \/ Next
  \/ AStart
  \/ ANextEvent
  \/ AEndOfStream

SpecAsync == Init /\ [][NextAsync]_vars

----------------------------------------------------------------------------
(***************************************************************************)
(* The termination conditions, as the specification words them.            *)
(***************************************************************************)
LastEvent == stream[Len(stream)]

\* Sentinels: writer '[DONE]'; cohere finished flag or end-of-sequence token.
ClaimSentinel(p, e) ==
  \/ p = "writer" /\ e.payload = "str" /\ e.text = DONE
  \/ /\ p = "cohere" /\ e.payload = "obj" /\ "is_finished" \in e.keys
     /\ (e.is_finished \/ ("out" \in e.keys /\ e.text = EOS_TOKEN))

\* Stop reasons: deepseek stop_reason in {stop, length} or finish_reason
\* eos_token; mistral stop_reason stop; meta stop_reason stop.
ClaimStopReason(p, e) ==
  /\ e.payload = "obj"
  /\ \/ /\ p = "deepseek" /\ "out" \in e.keys
        /\ \/ "stop_reason" \in e.keys /\ e.stop_reason \in {"stop", "length"}
           \/ "finish_reason" \in e.keys /\ e.finish_reason = "eos_token"
     \/ /\ p = "mistral" /\ "out" \in e.keys
        /\ "stop_reason" \in e.keys /\ e.stop_reason = "stop"
     \/ p = "meta" /\ "stop_reason" \in e.keys /\ e.stop_reason = "stop"

\* The message_stop event of the messages protocol.
ClaimMessageStop(api, e) ==
  api /\ e.payload = "obj" /\ "type" \in e.keys /\ e.type = "message_stop"

\* A termination condition has fired on the last event read: a sentinel as
\* soon as the event is read, a stop reason or message_stop once the
\* generator is past the yield of the event's own chunk.
TerminationFired ==
  /\ stream # <<>>
  /\ \/ ClaimSentinel(provider, LastEvent)
     \/ /\ pc # "yield_chunk"
        /\ \/ ClaimStopReason(provider, LastEvent)
           \/ ClaimMessageStop(messages_api, LastEvent)

\* C1: once a termination condition has fired, no chunk is emitted and no
\* event is read any more, the decoder can only move on to its final
\* state; a finished decoder stays finished, and the reason it ended for is
\* set once.
C1_TerminatedForGood ==
  [][ /\ TerminationFired =>
           /\ emitted' = emitted
           /\ stream' = stream
           /\ remaining' = remaining
           /\ pc' \in {pc, "done"}
      /\ pc \in {"done", "error"} => pc' = pc
      /\ term # "" => term' = term ]_vars

\* C1 witness: the decoder ended on a termination condition while the
\* transport still held events.
C1_Witness ==
  pc = "done" /\ TerminationFired /\ remaining > 0 /\ emitted # <<>>

UsageCount == Cardinality({i \in 1..Len(emitted) : emitted[i].kind = "usage"})

\* C2: a stream ended by a stop reason or by message_stop holds exactly
\* one terminal usage chunk, built from the last event's invocation
\* metrics, and it is the last chunk; a stream ended by a sentinel holds
\* none; no stream holds two.
C2_TerminalUsageChunk ==
  /\ UsageCount <= 1
  /\ ( /\ pc = "done" /\ stream # <<>>
       /\ \/ ClaimStopReason(provider, LastEvent)
          \/ ClaimMessageStop(messages_api, LastEvent) )
     => /\ UsageCount = 1
        /\ LET u == emitted[Len(emitted)] IN
           /\ u.kind = "usage" /\ u.text = <<>>
           /\ u.ev = Len(stream)
           /\ u.usage_metadata.present = ("metrics" \in LastEvent.keys)
           /\ u.usage_metadata.total_tokens =
                IF "metrics" \in LastEvent.keys
                THEN LastEvent.metrics.inputTokenCount
                     + LastEvent.metrics.outputTokenCount
                ELSE 0
  /\ (pc = "done" /\ stream # <<>> /\ ClaimSentinel(provider, LastEvent))
     => UsageCount = 0

\* C2 witness: a stream ended by a stop reason after earlier chunks.
C2_Witness ==
  /\ pc = "done" /\ stream # <<>> /\ ClaimStopReason(provider, LastEvent)
  /\ UsageCount = 1 /\ Len(emitted) >= 3

\* The chunks built from the k-th event of the stream, in emission order.
ChunksOf(k) == SelectSeq(emitted, LAMBDA c : c.ev = k)

\* The discriminants _stream_response_to_generation_chunk names.
RecognisedTypes == {"message_start", "content_block_start",
                    "content_block_delta", "message_delta"}

\* C3 as stated: message_stop and every unrecognised discriminant make the
\* decoder emit one terminal usage chunk built from that event and end.
C3_Original ==
  ( /\ messages_api /\ stream # <<>> /\ LastEvent.payload = "obj"
    /\ LastEvent.type \notin RecognisedTypes )
  => /\ pc \in {"yield_metrics", "done"}
     /\ Len(ChunksOf(Len(stream))) = 1
     /\ ChunksOf(Len(stream))[1].kind = "usage"

\* C3 amended: message_stop makes the decoder emit one terminal usage chunk
\* built from that event's invocation metrics and end; an event of any other
\* unrecognised discriminant yields no chunk and the decoder goes on with
\* the next event.
C3_MessageStopOnly ==
  ( messages_api /\ stream # <<>> /\ LastEvent.payload = "obj" )
  => /\ LastEvent.type = "message_stop"
        => /\ pc \in {"yield_metrics", "done"}
           /\ term = "message_stop"
           /\ Len(ChunksOf(Len(stream))) = 1
           /\ LET u == emitted[Len(emitted)] IN
              /\ u.kind = "usage" /\ u.ev = Len(stream)
              /\ u.usage_metadata.present = ("metrics" \in LastEvent.keys)
              /\ u.usage_metadata.input_tokens
                   = LastEvent.metrics.inputTokenCount
              /\ u.usage_metadata.output_tokens
                   = LastEvent.metrics.outputTokenCount
     /\ LastEvent.type \notin RecognisedTypes \cup {"message_stop"}
        => /\ ChunksOf(Len(stream)) = <<>>
           /\ \/ pc = "loop" /\ term = ""
              \/ pc = "done" /\ term = "exhausted"

\* C3 witness: an unrecognised event was passed over and a later
\* message_stop ended the stream.
C3_Witness ==
  /\ messages_api /\ pc = "done" /\ Len(stream) >= 2
  /\ stream[1].payload = "obj" /\ stream[1].type = "ping"
  /\ LastEvent.payload = "obj" /\ LastEvent.type = "message_stop"
  /\ remaining > 0

\* C4 as stated: no chunk at all for an event matching a sentinel, and for
\* an event matching a stop reason only the terminal usage chunk.
C4_Original ==
  \A i \in 1..Len(emitted) :
    /\ ~ClaimSentinel(provider, stream[emitted[i].ev])
    /\ ClaimStopReason(provider, stream[emitted[i].ev])
         => emitted[i].kind = "usage"

\* C4 amended: the sentinel predicates are evaluated before any other
\* processing (an event matching one ends the stream with no chunk for it);
\* the stop-reason predicates are evaluated after the event has been turned
\* into its content chunk and that chunk yielded: a decodable event
\* matching one yields its content chunk, then the terminal usage chunk,
\* and the stream ends.
C4_SentinelFirstStopAfterChunk ==
  /\ \A k \in 1..Len(stream) :
       ClaimSentinel(provider, stream[k])
         => k = Len(stream) /\ pc = "done" /\ ChunksOf(k) = <<>>
  /\ \A k \in 1..Len(stream) :
       ClaimStopReason(provider, stream[k])
         => /\ k = Len(stream)
            /\ pc \in {"yield_chunk", "yield_metrics", "done", "error"}
            /\ pc = "yield_chunk"
                 => /\ Len(ChunksOf(k)) = 1
                    /\ ChunksOf(k)[1].kind = "gen"
                    /\ ChunksOf(k)[1].text = stream[k].text
            /\ pc \in {"yield_metrics", "done"}
                 => /\ Len(ChunksOf(k)) = 2
                    /\ ChunksOf(k)[1].kind = "gen"
                    /\ ChunksOf(k)[1].text = stream[k].text
                    /\ ChunksOf(k)[2].kind = "usage"
            /\ pc = "error" => ChunksOf(k) = <<>> /\ "out" \notin stream[k].keys

\* C4 witness: a stop-reason event gave its content chunk and then the
\* terminal usage chunk.
C4_Witness ==
  /\ pc = "done" /\ stream # <<>> /\ ClaimStopReason(provider, LastEvent)
  /\ Len(ChunksOf(Len(stream))) = 2

\* C5 as stated: on the same provider, flags and transport stream the
\* asynchronous decoder yields the chunks the synchronous decoder yields,
\* stops at the same event and ends the same way.
C5_AsyncSameAsSync ==
  (SyncOver /\ apc \in {"done", "error"})
  => /\ aemitted = emitted
     /\ astream = stream
     /\ apc = pc

\* C6: the decoder is pull-based.  An event is read only while a next()
\* call of a consumer that has not given up is in progress and every chunk
\* built so far has been handed over; a chunk is built from the event just
\* read, is appended after the chunks of earlier events and ends the next()
\* call in progress; once the consumer has stopped pulling nothing is read
\* and nothing is emitted.
C6_PullBased ==
  [][ /\ stream' # stream =>
           /\ demand /\ ~abandoned
           /\ Len(emitted) = pulls - 1
           /\ Len(stream') = Len(stream) + 1
           /\ stream' = Append(stream, stream'[Len(stream')])
      /\ emitted' # emitted =>
           /\ demand /\ ~demand'
           /\ Len(emitted') = pulls
           /\ emitted' = Append(emitted, emitted'[Len(emitted')])
           /\ emitted'[Len(emitted')].ev = Len(stream')
           /\ \A i \in 1..Len(emitted) : emitted[i].ev <= Len(stream')
      /\ abandoned => /\ abandoned'
                      /\ stream' = stream
                      /\ emitted' = emitted ]_vars

\* C6 witness: the consumer stopped pulling after chunks of two events
\* while the transport still held events.
C6_Witness ==
  /\ abandoned /\ remaining > 0 /\ Len(emitted) >= 2
  /\ emitted[1].ev < emitted[2].ev

IsToolStart(e, i) ==
  /\ e.payload = "obj" /\ e.type = "content_block_start"
  /\ e.btype = "tool_use" /\ e.index = i

IsJsonDelta(e, i) ==
  /\ e.payload = "obj" /\ e.type = "content_block_delta"
  /\ e.btype = "input_json_delta" /\ e.index = i

\* The args fragments of the tool-call chunks emitted with index i.
FragsOut(i) ==
  LET cs == SelectSeq(emitted, LAMBDA c : /\ c.tool_call_chunks # <<>>
                                          /\ c.tool_call_chunks[1].index = i)
  IN [j \in 1..Len(cs) |-> cs[j].tool_call_chunks[1].args]

\* The fragments the events read carry for block i: the empty fragment of
\* the tool_use content_block_start, the partial_json of input_json_delta.
FragsIn(i) ==
  LET es == SelectSeq(stream, LAMBDA e : IsToolStart(e, i) \/ IsJsonDelta(e, i))
  IN [j \in 1..Len(es) |-> IF IsToolStart(es[j], i) THEN <<>> ELSE es[j].text]

BlockIndexes == {0, 1}

\* C7: for every block index the fragments of the emitted tool-call chunks
\* are, one for one and in order, the fragments of the events read for that
\* index, so their concatenations are equal; a start chunk carries the
\* block's id and name, a delta chunk null for both.
C7_ToolCallFragments ==
  messages_api =>
    /\ \A i \in BlockIndexes :
         /\ FragsOut(i) = FragsIn(i)
         /\ Concat(FragsOut(i)) = Concat(FragsIn(i))
    /\ \A n \in 1..Len(emitted) :
         LET c == emitted[n]
             e == stream[c.ev]
         IN /\ Len(c.tool_call_chunks) <= 1
            /\ c.tool_call_chunks # <<>> =>
                 LET tc == c.tool_call_chunks[1] IN
                 /\ IsToolStart(e, tc.index) \/ IsJsonDelta(e, tc.index)
                 /\ IsToolStart(e, tc.index) =>
                      tc.id = e.id /\ tc.name = e.name /\ tc.args = <<>>
                 /\ IsJsonDelta(e, tc.index) =>
                      tc.id = Null /\ tc.name = Null /\ tc.args = e.text

\* C7 witness: fragments of two blocks arrived interleaved.
C7_Witness ==
  /\ messages_api
  /\ FragsOut(0) = <<TA, TB>>
  /\ FragsOut(1) = <<TB>>
  /\ IsJsonDelta(stream[2], 1)

\* C9: a raw-prompt stream of a provider without an output key fails with
\* the configuration error at the first next(), with no event read and no
\* chunk emitted.
C9_NoOutputKeyFailsFast ==
  (~messages_api /\ has_body /\ provider \in {"ai21", "other"})
  => /\ stream = <<>>
     /\ emitted = <<>>
     /\ pc \in {"idle", "error"}
     /\ pc = "error" => term = "config_error"
     /\ pulls > 0 /\ ~demand => pc = "error"

\* C9 witness: the decoder of provider ai21 failed with the transport
\* holding events.
C9_Witness ==
  /\ provider = "ai21" /\ ~messages_api /\ has_body
  /\ pc = "error" /\ term = "config_error" /\ remaining > 0

----------------------------------------------------------------------------
(***************************************************************************)
(* The complete response equivalent to a stream transcript (the fixture    *)
(* pairing of the round-trip property).  Messages protocol: one content    *)
(* block per block index, in index order, holding the concatenation of     *)
(* that index's deltas.  Raw prompt: the provider's text field holds the   *)
(* concatenation of the output texts of the events; a sentinel event marks *)
(* the end and carries no part of the generation.                          *)
(***************************************************************************)
IsTextDelta(e, i) ==
  /\ e.payload = "obj" /\ e.type = "content_block_delta"
  /\ e.btype = "text_delta" /\ e.index = i

IsThinkingDelta(e, i) ==
  /\ e.payload = "obj" /\ e.type = "content_block_delta"
  /\ e.btype \in {"thinking_delta", "signature_delta"} /\ e.index = i

TextsOf(es) == Concat([j \in 1..Len(es) |-> es[j].text])

FullBlock(events, i) ==
  LET ts == SelectSeq(events, LAMBDA e : IsTextDelta(e, i))
      us == SelectSeq(events, LAMBDA e : IsToolStart(e, i))
      js == SelectSeq(events, LAMBDA e : IsJsonDelta(e, i))
      hs == SelectSeq(events, LAMBDA e : IsThinkingDelta(e, i)
                                         /\ e.btype = "thinking_delta")
  IN IF ts # <<>> THEN <<Block("text", i, TextsOf(ts), "", "")>>
     ELSE IF us # <<>>
       THEN <<Block("tool_use", i, TextsOf(js), us[1].id, us[1].name)>>
     ELSE IF hs # <<>> THEN <<Block("thinking", i, TextsOf(hs), "", "")>>
     ELSE <<>>

FullKey(p) == IF p = "anthropic" THEN "completion" ELSE output_path_key(p)

FullResponse(p, api, events) ==
  IF api
  THEN [body_ok |-> TRUE, keys |-> {"content"}, texts |-> <<>>,
        content |-> FullBlock(events, 0) \o FullBlock(events, 1),
        stop_reason |-> "", headers |-> <<>>]
  ELSE [body_ok |-> TRUE, keys |-> {FullKey(p)},
        texts |-> [k \in {FullKey(p)} |->
                     TextsOf(SelectSeq(events,
                       LAMBDA e : /\ e.payload = "obj" /\ "out" \in e.keys
                                  /\ ~ClaimSentinel(p, e)))],
        content |-> <<>>, stop_reason |-> "", headers |-> <<>>]

\* A transcript the messages protocol can produce: the events of one block
\* index are of one kind, and the blocks are streamed one after the other
\* (the text deltas arrive in the order of their block index).
WellFormed(api, events) ==
  api =>
    /\ \A i \in BlockIndexes :
         Cardinality({k \in {"text", "tool", "thinking"} :
            \E j \in 1..Len(events) :
               \/ k = "text" /\ IsTextDelta(events[j], i)
               \/ k = "tool" /\ (IsToolStart(events[j], i)
                                 \/ IsJsonDelta(events[j], i))
               \/ k = "thinking" /\ IsThinkingDelta(events[j], i)}) <= 1
    /\ \A j, k \in 1..Len(events) :
         ( /\ j < k
           /\ \E i \in BlockIndexes : IsTextDelta(events[j], i)
           /\ \E i \in BlockIndexes : IsTextDelta(events[k], i) )
         => events[j].index <= events[k].index

\* chunk.text: the string content, or the text blocks of a list content.
ChunkText(c) ==
  IF c.shape = "str" THEN c.text
  ELSE LET bs == SelectSeq(c.blocks, LAMBDA b : b.type = "text")
       IN Concat([i \in 1..Len(bs) |-> bs[i].text])

EmittedText == Concat([i \in 1..Len(emitted) |-> ChunkText(emitted[i])])

\* C8: for a transcript decoded to its end with coerce_content_to_string,
\* the texts of the chunks, concatenated in emission order, are the text
\* prepare_output returns for the equivalent complete response.
C8_RoundTrip ==
  ( /\ pc = "done" /\ term # "no_stream" /\ coerce_content_to_string
    /\ WellFormed(messages_api, stream) )
  => LET r == prepare_output(provider,
                             FullResponse(provider, messages_api, stream))
     IN ~r.raised /\ ~r.text_none /\ r.text = EmittedText

\* C8 witness: a messages transcript with text in two blocks, decoded to
\* message_stop.
C8_Witness ==
  /\ pc = "done" /\ coerce_content_to_string /\ messages_api
  /\ term = "message_stop"
  /\ WellFormed(messages_api, stream)
  /\ EmittedText = TA \o TB

----------------------------------------------------------------------------
(***************************************************************************)
(* One call of prepare_input on arguments drawn from small sets.           *)
(***************************************************************************)
ModelKwargsSet ==
  { EmptyDict,
    Put(EmptyDict, "max_tokens", 7),
    Put(EmptyDict, "max_tokens_to_sample", 9),
    Put(EmptyDict, "thinking", "enabled") }

PromptSet ==
  { NoText, Some(<<"Hello">>), Some(<<HumanMark, " ", "hi">>) }

TextItem == Item(TRUE, "text", "t")
ThinkingItem == Item(TRUE, "thinking", "k")
RedactedItem == Item(TRUE, "redacted_thinking", "r")
ToolUseItem == Item(TRUE, "tool_use", "u")
ToolResultItem == Item(TRUE, "tool_result", "res")
StringItem == Item(FALSE, "", "s")

MessagesSet ==
  { <<>>,
    <<Message("user", FALSE, <<>>)>>,
    <<Message("user", FALSE, <<>>),
      Message("assistant", TRUE, <<TextItem, ThinkingItem, ToolUseItem>>),
      Message("user", TRUE, <<ToolResultItem>>)>>,
    <<Message("assistant", TRUE, <<ToolUseItem, RedactedItem, ThinkingItem>>),
      Message("user", TRUE, <<ToolResultItem>>)>>,
    <<Message("assistant", TRUE, <<ThinkingItem, TextItem>>),
      Message("user", TRUE, <<ToolResultItem>>)>>,
    <<Message("assistant", TRUE, <<StringItem, ThinkingItem>>),
      Message("user", TRUE, <<ToolResultItem>>)>>,
    <<Message("assistant", TRUE, <<TextItem, StringItem, ThinkingItem>>),
      Message("user", TRUE, <<TextItem, ToolResultItem>>)>>,
    <<Message("assistant", TRUE, <<TextItem, ThinkingItem>>),
      Message("user", TRUE, <<TextItem>>)>> }

RequestInit ==
  /\ rb_pc = "called"
  /\ rb_args \in [provider : Providers,
                  model_kwargs : ModelKwargsSet,
                  prompt : PromptSet,
                  system : {NoText, Some(<<"sys">>)},
                  messages : MessagesSet,
                  tools : {<<>>, <<"tool">>},
                  max_tokens : {NoInt, Some(0), Some(5)},
                  temperature : {NoInt, Some(0)}]
  /\ rb_result = [raised |-> FALSE, body |-> EmptyDict, messages |-> <<>>,
                  warnings |-> 0]

\* The decoders at rest while prepare_input is called.
DecoderIdle ==
  /\ provider = "other" /\ messages_api = FALSE
  /\ coerce_content_to_string = TRUE /\ has_body = FALSE
  /\ remaining = 0 /\ stream = <<>> /\ pc = "idle" /\ emitted = <<>>
  /\ demand = FALSE /\ pulls = 0 /\ abandoned = FALSE /\ term = ""

\* The call runs to its return or to the exception it raises.
PrepareInput ==
  /\ rb_pc = "called"
  /\ rb_result' = prepare_input(rb_args.provider, rb_args.model_kwargs,
                                rb_args.prompt, rb_args.system,
                                rb_args.messages, rb_args.tools,
                                rb_args.max_tokens, rb_args.temperature)
  /\ rb_pc' = IF rb_result'.raised THEN "raised" ELSE "returned"
  /\ UNCHANGED rb_args
  /\ UNCHANGED <<decoder_vars, async_vars, output_vars, invoke_vars, format_vars, combine_vars>>

InitInput ==
  DecoderIdle /\ AsyncInit /\ RequestInit /\ OutputIdle /\ InvokeIdle
  /\ FormatIdle
  /\ CombineIdle

NextInput == PrepareInput

SpecInput == InitInput /\ [][NextInput]_vars

\* The provider ids prepare_input has a branch for.
KnownProviders == {"anthropic", "ai21", "cohere", "meta", "mistral",
                   "deepseek", "writer", "amazon"}

\* C10 as stated: prepare_input fails on a provider id that is not one of
\* the known providers, and returns no request body.
C10_Original ==
  (rb_pc \in {"returned", "raised"} /\ rb_args.provider \notin KnownProviders)
  => rb_pc = "raised" /\ rb_result.raised

\* C10 amended: prepare_input called with a provider id that is not one of
\* the known providers raises nothing; it returns the model kwargs with the
\* prompt added under 'inputText', whatever the other arguments are.
C10_UnknownProviderFallsBack ==
  (rb_pc # "called" /\ rb_args.provider \notin KnownProviders)
  => /\ rb_pc = "returned" /\ ~rb_result.raised
     /\ DOMAIN rb_result.body = DOMAIN rb_args.model_kwargs \cup {"inputText"}
     /\ rb_result.body["inputText"] = rb_args.prompt
     /\ \A k \in DOMAIN rb_args.model_kwargs : rb_result.body[k] = rb_args.model_kwargs[k]
     /\ rb_result.messages = rb_args.messages

\* C10 witness: a call with an unknown provider id, a prompt and a token
\* limit has returned.
C10_Witness ==
  /\ rb_pc = "returned" /\ rb_args.provider = "other"
  /\ rb_args.prompt = Some(<<"Hello">>) /\ rb_args.max_tokens = Some(5)
  /\ "max_tokens" \in DOMAIN rb_args.model_kwargs

----------------------------------------------------------------------------
(***************************************************************************)
(* One call of prepare_output on a response drawn from small sets.         *)
(***************************************************************************)
ResponseKeysSet ==
  { {}, {"completion"}, {"content"}, {"content", "stop_reason"},
    {"generation"}, {"choices"}, {"completions"}, {"generations"},
    {"outputs"}, {"results"}, {"results", "stop_reason"} }

ContentSet ==
  { <<>>,
    <<Block("text", 0, TA, "", ""), Block("thinking", 1, TB, "", ""),
      Block("tool_use", 2, TB, "id1", "search"),
      Block("text", 3, TB, "", "")>>,
    <<Block("tool_use", 0, TB, "id2", "lookup"),
      Block("text", 1, TA, "", ""),
      Block("tool_use", 2, TA, "id1", "search")>>,
    <<Block("text", 0, TA, "", "")>> }

HeadersSet ==
  { <<>>,
    (InputTokenHeader :> 3) @@ (OutputTokenHeader :> 2),
    (InputTokenHeader :> 3) @@ (OutputTokenHeader :> 2)
      @@ (CacheReadHeader :> 1) @@ (CacheWriteHeader :> 4),
    (CacheWriteHeader :> 4),
    (OutputTokenHeader :> 2) @@ (CacheReadHeader :> 1) }

ResponseSet ==
  { [body_ok |-> ok, keys |-> ks,
     texts |-> [k \in ks \ {"content", "stop_reason"} |-> TA],
     content |-> IF "content" \in ks THEN c ELSE <<>>,
     stop_reason |-> IF "stop_reason" \in ks THEN "end_turn" ELSE "",
     headers |-> h] :
    ok \in BOOLEAN, ks \in ResponseKeysSet, c \in ContentSet,
    h \in HeadersSet }

OutputInit ==
  /\ po_pc = "called"
  /\ po_args \in [provider : Providers, response : ResponseSet]
  /\ po_result = NoResult
  /\ po_body_read = FALSE

\* The call runs to its return or to the exception it raises; line 404
\* reads and decodes the body before the provider is looked at.
PrepareOutput ==
  /\ po_pc = "called"
  /\ po_body_read' = TRUE
  /\ po_result' = prepare_output(po_args.provider, po_args.response)
  /\ po_pc' = IF po_result'.raised THEN "raised" ELSE "returned"
  /\ UNCHANGED po_args
  /\ UNCHANGED <<decoder_vars, async_vars, request_vars, invoke_vars, format_vars, combine_vars>>

InitOutput ==
  DecoderIdle /\ AsyncInit /\ RequestIdle /\ OutputInit /\ InvokeIdle
  /\ FormatIdle
  /\ CombineIdle

NextOutput == PrepareOutput

SpecOutput == InitOutput /\ [][NextOutput]_vars

\* C11 as stated: prepare_output fails on a provider id that is not one of
\* the known providers, before the body is read or decoded.
C11_Original ==
  (po_pc # "called" /\ po_args.provider \notin KnownProviders)
  => po_pc = "raised" /\ ~po_body_read

\* C11 amended: prepare_output called with an unknown provider id raises no
\* configuration error.  It reads and decodes the body first, then parses
\* the response in the amazon format: with a decodable body holding
\* 'results' it returns the text at results[0].outputText and the usage of
\* the headers; it fails only when the body does not decode or has no
\* 'results'.
C11_UnknownProviderParsedAsAmazon ==
  (po_pc # "called" /\ po_args.provider \notin KnownProviders)
  => /\ po_body_read
     /\ po_pc = "returned"
          <=> (po_args.response.body_ok /\ "results" \in po_args.response.keys)
     /\ po_pc = "returned"
          => /\ po_result.text = po_args.response.texts["results"]
             /\ ~po_result.text_none
             /\ po_result.tool_calls = <<>>
             /\ po_result.usage.prompt_tokens
                  = HeaderGet(po_args.response.headers, InputTokenHeader)

\* C11 witness: a call with an unknown provider id on an amazon-shaped
\* response has returned its text.
C11_Witness ==
  /\ po_pc = "returned" /\ po_args.provider = "other"
  /\ po_body_read
  /\ po_result.text = TA
  /\ po_result.usage.total_tokens = 5

----------------------------------------------------------------------------
(***************************************************************************)
(* BedrockBase: the three invocation paths on one instance.  Every call    *)
(* passes the prompt 'Hello', no messages and no extra keyword argument;   *)
(* self.max_tokens and self.temperature are unset.                         *)
(***************************************************************************)
MaxCalls == 2
MaxChunks == 2

Paths == {"invoke", "stream", "astream"}

\* Lines 675-681: provider_stop_sequence_key_name_map; "" for no entry.
provider_stop_sequence_key_name_map(p) ==
  CASE p \in {"anthropic", "ai21", "cohere", "mistral"} -> "stop_sequences"
    [] p = "amazon" -> "stopSequences"
    [] OTHER -> ""

\* self.model_kwargs or {}: the instance's own dict when it is a non-empty
\* dict, a fresh empty dict otherwise.
Aliased(mk) == mk.some /\ mk.v # EmptyDict
local_model_kwargs(mk) == IF Aliased(mk) THEN mk.v ELSE EmptyDict

\* Lines 1021-1033 and 1115-1124: _model_kwargs after the stop sequences and
\* the cohere stream flag are written into it.
stream_model_kwargs(p, mk, stop) ==
  LET m1 == IF TruthyText(stop)
            THEN Put(mk, provider_stop_sequence_key_name_map(p), stop.v)
            ELSE mk
  IN IF p = "cohere" THEN Put(m1, "stream", TRUE) ELSE m1

\* The writes of lines 1030, 1033, 1121 and 1124 land in self.model_kwargs
\* when _model_kwargs is that very dict.
write_back(mk, written) == IF Aliased(mk) THEN Some(written) ELSE mk

\* stop_unsupported letting every provider through.
stop_unsupported_Never(p, stop) == FALSE

\* Lines 1021-1025 and 1115-1119.
stop_unsupported(p, stop) ==
  TruthyText(stop) /\ provider_stop_sequence_key_name_map(p) = ""

CallPrompt == Some(<<"Hello">>)

\* The body prepare_input builds from the call's params.
request_body(p, params) ==
  prepare_input(p, params, CallPrompt, NoText, <<>>, <<>>, NoInt, NoInt).body

\* Lines 862-941, 1018-1083 and 1112-1157: a call up to its transport
\* request, or to the ValueError of an unsupported stop sequence.
InvokeCall(path, stop, run_manager) ==
  /\ iv_pc \in {"ready", "raised", "returned"}
  /\ iv_ncalls < MaxCalls
  /\ iv_ncalls' = iv_ncalls + 1
  /\ iv_call' = [path |-> path, stop |-> stop, run_manager |-> run_manager]
  /\ iv_reports' = <<>> /\ iv_intervened' = FALSE
  /\ iv_nchunks' = 0 /\ iv_signals' = 0
  /\ IF path = "invoke"
     THEN /\ iv_body' = request_body(self_provider,
                                     local_model_kwargs(self_model_kwargs))
          /\ iv_pc' = "sent" /\ iv_attempts' = 1 /\ iv_outcome' = ""
          /\ UNCHANGED self_model_kwargs
     ELSE IF stop_unsupported(self_provider, stop)
     THEN /\ iv_pc' = "raised" /\ iv_outcome' = "value_error"
          /\ iv_attempts' = 0 /\ iv_body' = EmptyDict
          /\ UNCHANGED self_model_kwargs
     ELSE LET mk == stream_model_kwargs(self_provider,
                      local_model_kwargs(self_model_kwargs), stop)
          IN /\ self_model_kwargs' = write_back(self_model_kwargs, mk)
             /\ iv_body' = request_body(self_provider, mk)
             /\ iv_pc' = "sent" /\ iv_attempts' = 1 /\ iv_outcome' = ""
  /\ UNCHANGED <<self_provider, self_guardrail_trace, configured_kwargs>>
  /\ UNCHANGED <<decoder_vars, async_vars, request_vars, output_vars, format_vars, combine_vars>>

\* on_error reporting the failure to the observer twice.
on_error_Twice(path, run_manager, reports) ==
  IF path \in {"invoke", "stream"} /\ run_manager
  THEN Append(Append(reports, "error"), "error") ELSE reports

\* Lines 952-956 and 1085-1089: the except clause of the two synchronous
\* paths.  The asynchronous path (lines 1149-1157) has no try statement.
on_error(path, run_manager, reports) ==
  IF path \in {"invoke", "stream"} /\ run_manager
  THEN Append(reports, "error") ELSE reports

\* client.invoke_model or invoke_model_with_response_stream raises.
TransportRaises ==
  /\ iv_pc = "sent"
  /\ iv_reports' = on_error(iv_call.path, iv_call.run_manager, iv_reports)
  /\ iv_pc' = "raised" /\ iv_outcome' = "transport_error"
  /\ UNCHANGED <<self_provider, self_model_kwargs, self_guardrail_trace, configured_kwargs, iv_call, iv_body, iv_attempts, iv_ncalls, iv_intervened, iv_nchunks, iv_signals>>
  /\ UNCHANGED <<decoder_vars, async_vars, request_vars, output_vars, format_vars, combine_vars>>

\* services_signal looking at the body only.
services_signal_IgnoresTrace(trace, intervened) == intervened

\* Lines 981-1004 and 966-977: the guardrail notification of the
\* non-streamed path.
services_signal(trace, intervened) == trace /\ intervened

\* The transport call returns a response.  On the non-streamed path
\* prepare_output then runs inside the same try statement (lines 943-950),
\* and the body is looked at for a guardrail intervention (lines 966-977).
\* On the two streaming paths the decoder starts on the response.
TransportResponds(parse_ok, intervened) ==
  /\ iv_pc = "sent"
  /\ iv_intervened' = intervened
  /\ IF iv_call.path = "invoke" /\ ~parse_ok
     THEN /\ iv_reports' = on_error(iv_call.path, iv_call.run_manager,
                                    iv_reports)
          /\ iv_pc' = "raised" /\ iv_outcome' = "parse_error"
     ELSE /\ iv_reports' =
               IF /\ iv_call.path = "invoke" /\ iv_call.run_manager
                  /\ services_signal(self_guardrail_trace, intervened)
               THEN Append(iv_reports, "guardrail") ELSE iv_reports
          /\ IF iv_call.path = "invoke"
             THEN iv_pc' = "returned" /\ iv_outcome' = "ok"
             ELSE iv_pc' = "streaming" /\ iv_outcome' = ""
  /\ UNCHANGED <<self_provider, self_model_kwargs, self_guardrail_trace, configured_kwargs, iv_call, iv_body, iv_attempts, iv_ncalls, iv_nchunks, iv_signals>>
  /\ UNCHANGED <<decoder_vars, async_vars, request_vars, output_vars, format_vars, combine_vars>>

\* Lines 1091-1101 and 1160-1166: the decoder yields a chunk and the chunk
\* is passed on.  The synchronous path then calls
\* _get_bedrock_services_signal on the generation_info of a chunk that is
\* not an AIMessageChunk and drops what the call returns; the asynchronous
\* path makes no such call.
StreamChunk(is_message, intervened) ==
  /\ iv_pc = "streaming"
  /\ iv_nchunks < MaxChunks
  /\ iv_nchunks' = iv_nchunks + 1
  /\ iv_intervened' = intervened
  /\ iv_signals' =
       IF /\ iv_call.path = "stream" /\ ~is_message
          /\ services_signal(self_guardrail_trace, intervened)
       THEN iv_signals + 1 ELSE iv_signals
  /\ UNCHANGED iv_reports
  /\ UNCHANGED <<self_provider, self_model_kwargs, self_guardrail_trace, configured_kwargs, iv_pc, iv_call, iv_body, iv_outcome, iv_attempts, iv_ncalls>>
  /\ UNCHANGED <<decoder_vars, async_vars, request_vars, output_vars, format_vars, combine_vars>>

\* The decoder is exhausted and the streaming call returns.
StreamEnds ==
  /\ iv_pc = "streaming"
  /\ iv_pc' = "returned" /\ iv_outcome' = "ok"
  /\ UNCHANGED <<self_provider, self_model_kwargs, self_guardrail_trace, configured_kwargs, iv_call, iv_body, iv_reports, iv_attempts, iv_ncalls, iv_intervened, iv_nchunks, iv_signals>>
  /\ UNCHANGED <<decoder_vars, async_vars, request_vars, output_vars, format_vars, combine_vars>>

ConfiguredKwargsSet ==
  { NoDict, Some(EmptyDict), Some(Put(EmptyDict, "top_p", 1)),
    Some(Put(EmptyDict, "stop_sequences", <<"cfg">>)) }

InvokeInit ==
  /\ self_provider \in Providers
  /\ configured_kwargs \in ConfiguredKwargsSet
  /\ self_model_kwargs = configured_kwargs
  /\ self_guardrail_trace \in BOOLEAN
  /\ iv_pc = "ready" /\ iv_call = NoCall /\ iv_body = EmptyDict
  /\ iv_outcome = "" /\ iv_reports = <<>> /\ iv_attempts = 0
  /\ iv_ncalls = 0 /\ iv_intervened = FALSE
  /\ iv_nchunks = 0 /\ iv_signals = 0

InitInvoke ==
  DecoderIdle /\ AsyncInit /\ RequestIdle /\ OutputIdle /\ InvokeInit
  /\ FormatIdle
  /\ CombineIdle

NextInvoke ==
  \/ \E path \in Paths, stop \in {NoText, Some(<<"END">>)},
        run_manager \in BOOLEAN : InvokeCall(path, stop, run_manager)
  \/ TransportRaises
  \/ \E parse_ok, intervened \in BOOLEAN :
        TransportResponds(parse_ok, intervened)
  \/ \E is_message, intervened \in BOOLEAN :
        StreamChunk(is_message, intervened)
  \/ StreamEnds

SpecInvoke == InitInvoke /\ [][NextInvoke]_vars

\* C12: a failed transport call is reported exactly once to an attached
\* run_manager.on_llm_error and the error is raised, on the non-streamed,
\* the synchronous streaming and the asynchronous streaming path alike; the
\* transport is called once only.
C12_TransportFailureReportedOnce ==
  iv_outcome = "transport_error"
  => /\ iv_pc = "raised" /\ iv_attempts = 1
     /\ iv_reports = IF iv_call.run_manager THEN <<"error">> ELSE <<>>

----------------------------------------------------------------------------
\* The event the step reads, when the step reads one.
Reads == Len(stream') = Len(stream) + 1
ReadEvent == stream'[Len(stream')]

\* The step raises: the generator dies with no chunk put out.
RaisesNow == pc' = "error" /\ emitted' = emitted

\* Once the generator has raised nothing is emitted or read.
DeadAfterError ==
  pc = "error" => pc' = "error" /\ emitted' = emitted /\ stream' = stream

\* The payload is a JSON object without the output field of a raw-prompt
\* provider.
LacksOutput(e) == ~messages_api /\ e.payload = "obj" /\ "out" \notin e.keys

\* C13 as stated: an event whose payload is invalid JSON, or an object
\* lacking the provider's output field, raises to the consumer; nothing is
\* emitted or read afterwards.
C13_Original ==
  [][ /\ DeadAfterError
      /\ (Reads /\ (ReadEvent.payload = "invalid" \/ LacksOutput(ReadEvent)))
           => RaisesNow ]_vars

\* cohere's finished flag is read before the output field.
CohereFinished(e) ==
  provider = "cohere" /\ "is_finished" \in e.keys /\ e.is_finished

\* C13 amended: an event whose payload is invalid JSON raises to the
\* consumer, and so does an event of a raw-prompt stream whose object lacks
\* the provider's output field, except a cohere event whose is_finished
\* flag is set, which ends the stream normally with no error; either way no
\* chunk is emitted for the event, and nothing is emitted or read once the
\* error is raised.
C13_DecodeErrorFatal ==
  [][ /\ DeadAfterError
      /\ (Reads /\ ReadEvent.payload = "invalid") => RaisesNow
      /\ (Reads /\ LacksOutput(ReadEvent) /\ ~CohereFinished(ReadEvent))
           => RaisesNow
      /\ (Reads /\ LacksOutput(ReadEvent) /\ CohereFinished(ReadEvent))
           => pc' = "done" /\ emitted' = emitted ]_vars

\* C13 witness: a meta stream has raised on an event without the output
\* field, after a chunk was emitted and with events left unread.
C13_Witness ==
  /\ pc = "error" /\ term = "error" /\ provider = "meta"
  /\ Len(stream) = 2 /\ LacksOutput(stream[2])
  /\ Len(emitted) = 1 /\ remaining > 0

----------------------------------------------------------------------------
(***************************************************************************)
(* prepare_output_stream as a function of the whole event sequence: the    *)
(* chunks a consumer that pulls to the end receives.                       *)
(***************************************************************************)
\* Lines 493-536 for one event: the chunks it gives and whether the
\* generator ends on it.
decode_event(e, p, api, coerce) ==
  IF e.payload = "none" THEN [chunks |-> <<>>, ends |-> FALSE]
  ELSE IF e.payload = "invalid" THEN [chunks |-> <<>>, ends |-> TRUE]
  ELSE IF sentinel_check(e, p, api) # "go"
  THEN [chunks |-> <<>>, ends |-> TRUE]
  ELSE
    LET r == stream_response_to_generation_chunk(e, p, api, coerce)
        first == IF r.none THEN <<>> ELSE <<r.chunk>>
    IN IF r.raised THEN [chunks |-> <<>>, ends |-> TRUE]
       ELSE IF stop_check(e, p, api) # ""
       THEN [chunks |-> first \o <<get_invocation_metrics_chunk(e)>>,
             ends |-> TRUE]
       ELSE [chunks |-> first, ends |-> FALSE]

RECURSIVE decode_stream(_, _, _, _)
\* Line 492: the loop over the events.
decode_stream(events, p, api, coerce) ==
  IF events = <<>> THEN <<>>
  ELSE LET d == decode_event(Head(events), p, api, coerce)
       IN IF d.ends THEN d.chunks
          ELSE d.chunks \o decode_stream(Tail(events), p, api, coerce)

\* The events that carry a payload.
WithPayload(events) == SelectSeq(events, LAMBDA e : e.payload # "none")

\* The chunks emitted, without the position of the event they came from.
EmittedChunks == [i \in 1..Len(emitted) |-> At(emitted[i], 0)]

\* C14: an event with no payload is skipped: reading it emits no chunk and
\* leaves the decoder where it was, and the chunks of a finished stream are
\* the chunks of the same stream with its payload-less events removed.
C14_NoPayloadSkipped ==
  /\ [][ (Reads /\ ReadEvent.payload = "none")
           => /\ emitted' = emitted /\ pc' = pc /\ term' = term
              /\ demand' = demand ]_vars
  /\ [](pc \in {"done", "error"} /\ term \notin {"no_stream", "config_error"}
          => EmittedChunks
               = decode_stream(WithPayload(stream), provider, messages_api,
                               coerce_content_to_string))

\* C14 witness: a stream with a payload-less event between two events that
\* each gave a chunk has been decoded to its end.
C14_Witness ==
  /\ pc = "done" /\ Len(stream) = 3 /\ stream[2].payload = "none"
  /\ Len(emitted) >= 2 /\ emitted[1].ev = 1 /\ emitted[2].ev = 3

----------------------------------------------------------------------------
\* The stop-sequence field of the instance's provider.
StopKey == provider_stop_sequence_key_name_map(self_provider)

\* C15: request construction shares no state between calls: the instance's
\* model_kwargs are after every call what they were at construction, and
\* the body of a streaming call made without stop sequences carries a
\* stop-sequence field only if the configured model_kwargs hold one.
C15_NoSharedState ==
  /\ self_model_kwargs = configured_kwargs
  /\ ( /\ iv_pc = "sent" /\ iv_call.path \in {"stream", "astream"}
       /\ ~TruthyText(iv_call.stop) /\ StopKey # "" )
     => ( StopKey \in DOMAIN iv_body
          => /\ configured_kwargs.some
             /\ StopKey \in DOMAIN configured_kwargs.v
             /\ iv_body[StopKey] = configured_kwargs.v[StopKey] )

----------------------------------------------------------------------------
(***************************************************************************)
(* prepare_input on every two-message conversation whose assistant turn    *)
(* holds up to MaxBlocks content items.                                    *)
(***************************************************************************)
MaxBlocks == 3

ContentItems == {TextItem, ThinkingItem, RedactedItem, ToolUseItem, StringItem}

ContentLists == UNION {[1..n -> ContentItems] : n \in 0..MaxBlocks}

ReorderMessagesSet ==
  { <<Message("assistant", TRUE, c), Message("user", TRUE, u)>> :
      c \in ContentLists, u \in {<<ToolResultItem>>, <<TextItem>>} }
  \cup { <<Message("assistant", FALSE, <<>>),
           Message("user", TRUE, <<ToolResultItem>>)>> }

ReorderInit ==
  /\ rb_pc = "called"
  /\ rb_args \in [provider : {"anthropic"},
                  model_kwargs : {EmptyDict,
                                  Put(EmptyDict, "thinking", "enabled")},
                  prompt : {NoText}, system : {NoText},
                  messages : ReorderMessagesSet,
                  tools : {<<>>}, max_tokens : {NoInt},
                  temperature : {NoInt}]
  /\ rb_result = [raised |-> FALSE, body |-> EmptyDict, messages |-> <<>>,
                  warnings |-> 0]

InitReorder ==
  DecoderIdle /\ AsyncInit /\ ReorderInit /\ OutputIdle /\ InvokeIdle
  /\ FormatIdle
  /\ CombineIdle

SpecReorder == InitReorder /\ [][NextInput]_vars

\* The case of the reorder, in the words of the specification: thinking
\* mode is active, the last message is a user turn whose content list holds
\* a tool_result block, the one before is an assistant turn with list
\* content.
ReorderCase ==
  /\ rb_pc # "called"
  /\ "thinking" \in DOMAIN rb_args.model_kwargs
  /\ Len(rb_args.messages) >= 2
  /\ rb_args.messages[Len(rb_args.messages)].role = "user"
  /\ rb_args.messages[Len(rb_args.messages)].is_list
  /\ \E i \in 1..Len(rb_args.messages[Len(rb_args.messages)].content) :
        rb_args.messages[Len(rb_args.messages)].content[i] = ToolResultItem
  /\ rb_args.messages[Len(rb_args.messages) - 1].role = "assistant"
  /\ rb_args.messages[Len(rb_args.messages) - 1].is_list

\* The assistant turn's content as passed in, and as emitted in the body.
ContentIn == rb_args.messages[Len(rb_args.messages) - 1].content
ContentOut == rb_result.body["messages"][Len(rb_args.messages) - 1].content

IsThinking(b) == b \in {ThinkingItem, RedactedItem}

\* Every thinking block precedes every block of another type.
ThinkingFirst(c) ==
  \A i, j \in 1..Len(c) : (i < j /\ IsThinking(c[j])) => IsThinking(c[i])

\* C16 as stated: in the reorder case the emitted assistant content has
\* every thinking / redacted_thinking block before every other block.
C16_Original ==
  (ReorderCase /\ rb_pc = "returned") => ThinkingFirst(ContentOut)

\* C16 amended: in the reorder case the emitted assistant content starts
\* with a thinking block whenever it holds one.  A content whose first
\* block is not a thinking block is emitted with every thinking block ahead
\* of every other block; a content that already starts with a thinking
\* block, or holds none, is emitted as it is; a content that holds a
\* thinking block and whose first item is not a dict makes the call raise.
C16_StartsWithThinking ==
  ReorderCase =>
    IF \A i \in 1..Len(ContentIn) : ~IsThinking(ContentIn[i])
    THEN rb_pc = "returned" /\ ContentOut = ContentIn
    ELSE IF ContentIn[1] = StringItem THEN rb_pc = "raised"
    ELSE IF IsThinking(ContentIn[1])
    THEN rb_pc = "returned" /\ ContentOut = ContentIn
    ELSE /\ rb_pc = "returned"
         /\ IsThinking(ContentOut[1]) /\ ThinkingFirst(ContentOut)

\* C16 witness: [text, thinking, tool_use] has been emitted as
\* [thinking, text, tool_use].
C16_Witness ==
  /\ ReorderCase /\ rb_pc = "returned"
  /\ ContentIn = <<TextItem, ThinkingItem, ToolUseItem>>
  /\ ContentOut = <<ThinkingItem, TextItem, ToolUseItem>>

\* The number of occurrences of item b in content c.
Occurrences(c, b) == Cardinality({i \in 1..Len(c) : c[i] = b})

\* C17: a content the reorder rewrites holds the same items as before, as
\* many times each: nothing is added, nothing is removed.
C17_ReorderPermutes ==
  (ReorderCase /\ rb_pc = "returned" /\ ContentOut # ContentIn)
  => /\ Len(ContentOut) = Len(ContentIn)
     /\ \A b \in ContentItems :
          Occurrences(ContentOut, b) = Occurrences(ContentIn, b)

\* C18: the caller's messages list is after the call what it was before.
C18_CallerMessagesUntouched ==
  rb_pc # "called" => rb_result.messages = rb_args.messages

----------------------------------------------------------------------------
(***************************************************************************)
(* One call of _human_assistant_format on every text of up to MaxTokens    *)
(* tokens.                                                                 *)
(***************************************************************************)
MaxTokens == 4

Tokens == {HumanMark, AssistantMark, NL, " ", "w"}

Texts == UNION {[1..n -> Tokens] : n \in 0..MaxTokens}

FormatInit ==
  /\ fmt_pc = "called"
  /\ fmt_in \in Texts
  /\ fmt_out = [text |-> <<>>, warnings |-> 0]
  /\ fmt_prepended = FALSE
  /\ fmt_norm = <<>>

\* Lines 62-90; fmt_prepended records whether line 67 ran.
Format ==
  /\ fmt_pc = "called"
  /\ fmt_out' = human_assistant_format(fmt_in)
  /\ fmt_prepended' = (prepend_human(fmt_in) # fmt_in)
  /\ fmt_norm' = normalised(fmt_in)
  /\ fmt_pc' = "returned"
  /\ UNCHANGED fmt_in
  /\ UNCHANGED <<decoder_vars, async_vars, request_vars, output_vars, invoke_vars, combine_vars>>

InitFormat ==
  DecoderIdle /\ AsyncInit /\ RequestIdle /\ OutputIdle /\ InvokeIdle
  /\ FormatInit /\ CombineIdle

NextFormat == Format

SpecFormat == InitFormat /\ [][NextFormat]_vars

\* The text holds the marker.
Holds(text, word) == \E i \in 1..Len(text) : text[i] = word

\* C19: a text that holds neither 'Human:' nor 'Assistant:' is returned as
\* '\n\nHuman: ' + text + '\n\nAssistant:', with no warning.
C19_PlainTextWrapped ==
  ( /\ fmt_pc = "returned"
    /\ ~Holds(fmt_in, HumanMark) /\ ~Holds(fmt_in, AssistantMark) )
  => /\ fmt_out.text = <<NL, NL, HumanMark, " ">> \o fmt_in
                       \o <<NL, NL, AssistantMark>>
     /\ fmt_out.warnings = 0

\* C19 witness: a text of a word between newlines has been wrapped.
C19_Witness ==
  /\ fmt_pc = "returned"
  /\ fmt_in = <<NL, "w", NL, NL>>
  /\ fmt_out.text = <<NL, NL, HumanMark, " ", NL, "w", NL, NL, NL, NL, AssistantMark>>

\* The positions of the last and of the first occurrence of a marker.
LastOf(text, word) ==
  CHOOSE i \in 1..Len(text) :
    text[i] = word /\ \A j \in (i + 1)..Len(text) : text[j] # word
FirstOf(text, word) ==
  CHOOSE i \in 1..Len(text) :
    text[i] = word /\ \A j \in 1..(i - 1) : text[j] # word

\* C20 as stated: the human marker is prepended exactly when the input
\* holds no human marker or its last assistant marker comes before its last
\* human marker.
C20_Original ==
  fmt_pc = "returned"
  => ( fmt_prepended
       <=> \/ ~Holds(fmt_in, HumanMark)
           \/ /\ Holds(fmt_in, AssistantMark)
              /\ LastOf(fmt_in, AssistantMark) < LastOf(fmt_in, HumanMark) )

\* C20 amended: the human marker followed by a space is prepended exactly
\* when the input holds no human marker or its first assistant marker comes
\* before its first human marker, and in no other case.
C20_PrependOnFirstOccurrences ==
  fmt_pc = "returned"
  => ( fmt_prepended
       <=> \/ ~Holds(fmt_in, HumanMark)
           \/ /\ Holds(fmt_in, AssistantMark)
              /\ FirstOf(fmt_in, AssistantMark) < FirstOf(fmt_in, HumanMark) )

\* C20 witness: a text whose first assistant marker comes before its first
\* human marker, and whose last one comes after, has had the human marker
\* prepended.
C20_Witness ==
  /\ fmt_pc = "returned" /\ fmt_prepended
  /\ fmt_in = <<AssistantMark, HumanMark, AssistantMark>>
  /\ fmt_out.text[3] = HumanMark /\ fmt_out.text[4] = " "

----------------------------------------------------------------------------
IsMarker(tok) == tok \in {HumanMark, AssistantMark}

\* The number of newlines that come right before position i of the text.
RECURSIVE NewlinesBefore(_, _)
NewlinesBefore(text, i) ==
  IF i > 1 /\ text[i - 1] = NL THEN 1 + NewlinesBefore(text, i - 1) ELSE 0

\* C21: in the formatter's output every role marker is preceded by exactly
\* two newlines, whatever the input.
C21_ExactlyTwoNewlines ==
  fmt_pc = "returned"
  => \A i \in 1..Len(fmt_out.text) :
       IsMarker(fmt_out.text[i]) => NewlinesBefore(fmt_out.text, i) = 2

\* The markers of a text, in order.
MarkersOf(text) == SelectSeq(text, IsMarker)

\* The walk of the alternation scan over a marker sequence, in the words of
\* the specification: expecting human first, then assistant, and so on; a
\* marker that is not the expected one is out of order and changes nothing.
RECURSIVE OutOfOrder(_, _)
OutOfOrder(ms, expected) ==
  IF ms = <<>> THEN 0
  ELSE IF Head(ms) = expected
  THEN OutOfOrder(Tail(ms), IF expected = HumanMark THEN AssistantMark
                            ELSE HumanMark)
  ELSE 1 + OutOfOrder(Tail(ms), expected)

RECURSIVE ExpectedAtEnd(_, _)
ExpectedAtEnd(ms, expected) ==
  IF ms = <<>> THEN expected
  ELSE IF Head(ms) = expected
  THEN ExpectedAtEnd(Tail(ms), IF expected = HumanMark THEN AssistantMark
                               ELSE HumanMark)
  ELSE ExpectedAtEnd(Tail(ms), expected)

\* C22: the scan gives one warning per marker of the normalised text that
\* is out of the expected order and none otherwise; the text is returned
\* unaltered, with a trailing assistant marker appended exactly when the
\* scan ends expecting an assistant turn; the text is returned whatever the
\* number of warnings.
C22_AlternationScan ==
  fmt_pc = "returned"
  => /\ fmt_out.warnings = OutOfOrder(MarkersOf(fmt_norm), HumanMark)
     /\ fmt_out.text =
          IF ExpectedAtEnd(MarkersOf(fmt_norm), HumanMark) = AssistantMark
          THEN fmt_norm \o <<NL, NL, AssistantMark>>
          ELSE fmt_norm

\* C22 witness: 'Human: w\n\nHuman:' has been returned with one warning and
\* a trailing assistant marker.
C22_Witness ==
  /\ fmt_pc = "returned"
  /\ fmt_in = <<HumanMark, "w", HumanMark>>
  /\ fmt_out.warnings = 1
  /\ fmt_out.text = <<NL, NL, HumanMark, "w", NL, NL, HumanMark,
                      NL, NL, AssistantMark>>

----------------------------------------------------------------------------
(***************************************************************************)
(* One call of _combine_generation_info_for_llm_result on every list of up *)
(* to MaxInfos generation_info maps.                                       *)
(***************************************************************************)
MaxInfos == 3

BaseInfo ==
  [keys |-> {}, usage_keys |-> {}, input_tokens |-> <<>>,
   output_tokens |-> <<>>, metrics_keys |-> {}, inputTokenCount |-> 0,
   outputTokenCount |-> 0, stop |-> "", stop_null |-> FALSE]

UsageInfo(ins, outs) ==
  [BaseInfo EXCEPT !.keys = {"usage"},
                   !.usage_keys = {"input_tokens", "output_tokens"},
                   !.input_tokens = ins, !.output_tokens = outs]

MetricsInfo(i, o) ==
  [BaseInfo EXCEPT !.keys = {"metrics"},
                   !.metrics_keys = {"inputTokenCount", "outputTokenCount"},
                   !.inputTokenCount = i, !.outputTokenCount = o]

StopInfo(v, null) ==
  [BaseInfo EXCEPT !.keys = {"stop"}, !.stop = v, !.stop_null = null]

InfoSet ==
  { BaseInfo,
    UsageInfo(<<10>>, <<5>>), UsageInfo(<<0>>, <<3>>),
    UsageInfo(<<2, 3>>, <<1, 1>>),
    [UsageInfo(<<4>>, <<>>) EXCEPT !.usage_keys = {"input_tokens"}],
    MetricsInfo(3, 2),
    [MetricsInfo(0, 7) EXCEPT !.metrics_keys = {"outputTokenCount"}],
    [MetricsInfo(3, 2) EXCEPT !.keys = {"metrics", "stop"},
                              !.stop = "end_turn"],
    StopInfo("stop", FALSE), StopInfo("length", FALSE),
    StopInfo("", FALSE), StopInfo("", TRUE) }

InfoLists == UNION {[1..n -> InfoSet] : n \in 0..MaxInfos}

CombineInit ==
  /\ cb_pc = "called"
  /\ cb_args \in [infos : InfoLists, has_stop_code : BOOLEAN]
  /\ cb_result = NoCombined

\* Lines 186-222.
Combine ==
  /\ cb_pc = "called"
  /\ cb_result' = combine_generation_info_for_llm_result(
                    cb_args.infos, cb_args.has_stop_code)
  /\ cb_pc' = "returned"
  /\ UNCHANGED cb_args
  /\ UNCHANGED <<decoder_vars, async_vars, request_vars, output_vars, invoke_vars, format_vars>>

InitCombine ==
  DecoderIdle /\ AsyncInit /\ RequestIdle /\ OutputIdle /\ InvokeIdle
  /\ FormatIdle /\ CombineInit

NextCombine == Combine

SpecCombine == InitCombine /\ [][NextCombine]_vars

\* The input and output counts one map holds: every element of its usage
\* arrays and its invocation-metrics counts.
RECURSIVE Total(_)
Total(ns) == IF Len(ns) = 0 THEN 0 ELSE ns[Len(ns)] + Total(SubSeq(ns, 1, Len(ns) - 1))

InputCount(info) ==
  (IF "usage" \in info.keys /\ "input_tokens" \in info.usage_keys
   THEN Total(info.input_tokens) ELSE 0)
  + (IF "metrics" \in info.keys /\ "inputTokenCount" \in info.metrics_keys
     THEN info.inputTokenCount ELSE 0)

OutputCount(info) ==
  (IF "usage" \in info.keys /\ "output_tokens" \in info.usage_keys
   THEN Total(info.output_tokens) ELSE 0)
  + (IF "metrics" \in info.keys /\ "outputTokenCount" \in info.metrics_keys
     THEN info.outputTokenCount ELSE 0)

\* C23: prompt_tokens and completion_tokens are the sums over the maps of
\* the list of their input and output counts, and total_tokens is their
\* sum.
C23_UsageSums ==
  cb_pc = "returned"
  => /\ cb_result.prompt_tokens
          = Total([i \in 1..Len(cb_args.infos) |-> InputCount(cb_args.infos[i])])
     /\ cb_result.completion_tokens
          = Total([i \in 1..Len(cb_args.infos) |-> OutputCount(cb_args.infos[i])])
     /\ cb_result.total_tokens
          = cb_result.prompt_tokens + cb_result.completion_tokens

\* C23 witness: {input 10, output 5} and {input 0, output 3} have been
\* combined to 10, 8 and 18.
C23_Witness ==
  /\ cb_pc = "returned"
  /\ cb_args.infos = <<UsageInfo(<<10>>, <<5>>), UsageInfo(<<0>>, <<3>>)>>
  /\ cb_result.prompt_tokens = 10 /\ cb_result.completion_tokens = 8
  /\ cb_result.total_tokens = 18

\* The maps of the list that hold the stop-reason field, and those whose
\* value under it is a non-empty string.
HasStop(i) == "stop" \in cb_args.infos[i].keys
NonEmptyStop(i) ==
  HasStop(i) /\ ~cb_args.infos[i].stop_null /\ cb_args.infos[i].stop # ""

\* C24 as stated: the combined stop reason is the last non-empty value
\* under the stop-reason field; a later empty or null value does not erase
\* an earlier non-empty one.
C24_Original ==
  (cb_pc = "returned" /\ cb_args.has_stop_code)
  => \A i \in 1..Len(cb_args.infos) :
       ( /\ NonEmptyStop(i)
         /\ \A j \in (i + 1)..Len(cb_args.infos) : ~NonEmptyStop(j) )
       => /\ cb_result.stop_reason = cb_args.infos[i].stop
          /\ ~cb_result.stop_null

\* C24 amended: the combined stop reason is the value under the
\* stop-reason field of the last map that holds the field, whatever the
\* value: a later value overrides an earlier one even when the later value
\* is empty or null; it is the empty string when no map holds the field.
C24_LastPresentWins ==
  (cb_pc = "returned" /\ cb_args.has_stop_code)
  => /\ \A i \in 1..Len(cb_args.infos) :
          ( /\ HasStop(i)
            /\ \A j \in (i + 1)..Len(cb_args.infos) : ~HasStop(j) )
          => /\ cb_result.stop_reason = cb_args.infos[i].stop
             /\ cb_result.stop_null = cb_args.infos[i].stop_null
     /\ (\A i \in 1..Len(cb_args.infos) : ~HasStop(i))
          => cb_result.stop_reason = "" /\ ~cb_result.stop_null

\* C24 witness: 'stop' followed by a null stop reason has been combined to
\* a null stop reason.
C24_Witness ==
  /\ cb_pc = "returned" /\ cb_args.has_stop_code
  /\ cb_args.infos = <<StopInfo("stop", FALSE), StopInfo("", TRUE)>>
  /\ cb_result.stop_null

----------------------------------------------------------------------------
\* C25: on the non-streamed path the observer receives a guardrail
\* notification only when guardrail tracing is enabled and the response
\* body's guardrail action is INTERVENED, and the notified call still
\* returns its output: nothing is raised and no failure is reported.
C25_GuardrailNotifiesOnly ==
  (iv_call.path = "invoke" /\ \E i \in 1..Len(iv_reports) : iv_reports[i] = "guardrail")
  => /\ self_guardrail_trace /\ iv_intervened
     /\ iv_pc = "returned" /\ iv_outcome = "ok"
     /\ iv_reports = <<"guardrail">>

\* C25 witness: a non-streamed call has returned after its observer was
\* notified of a guardrail intervention.
C25_Witness ==
  /\ iv_call.path = "invoke" /\ iv_call.run_manager
  /\ self_guardrail_trace /\ iv_intervened
  /\ iv_pc = "returned" /\ iv_reports = <<"guardrail">>

----------------------------------------------------------------------------
\* The count a response header carries, 0 when the header is absent.
HeaderCount(name) ==
  IF name \in DOMAIN po_args.response.headers
  THEN po_args.response.headers[name] ELSE 0

\* C26: the usage prepare_output returns holds the four header counts, 0
\* for each absent header, and total_tokens is input + cache-read + output:
\* the cache-write count is not part of the total.
C26_UsageFromHeaders ==
  po_pc = "returned"
  => /\ po_result.usage.prompt_tokens = HeaderCount(InputTokenHeader)
     /\ po_result.usage.completion_tokens = HeaderCount(OutputTokenHeader)
     /\ po_result.usage.cache_read_input_tokens = HeaderCount(CacheReadHeader)
     /\ po_result.usage.cache_write_input_tokens
          = HeaderCount(CacheWriteHeader)
     /\ po_result.usage.total_tokens
          = HeaderCount(InputTokenHeader) + HeaderCount(CacheReadHeader)
            + HeaderCount(OutputTokenHeader)

\* C26 witness: a response with a cache-write count of 4 has been parsed to
\* a total of 3 + 1 + 2.
C26_Witness ==
  /\ po_pc = "returned"
  /\ HeaderCount(CacheWriteHeader) = 4 /\ HeaderCount(InputTokenHeader) = 3
  /\ po_result.usage.cache_write_input_tokens = 4
  /\ po_result.usage.total_tokens = 6

\* C26 witness of the absent headers: a response with the cache-write
\* header only has been parsed to a total of 0.
C26_WitnessAbsent ==
  /\ po_pc = "returned"
  /\ DOMAIN po_args.response.headers = {CacheWriteHeader}
  /\ po_result.usage.total_tokens = 0

\* The body is a messages body read by the messages-protocol provider.
MessagesBody ==
  /\ po_args.provider = "anthropic"
  /\ "content" \in po_args.response.keys
  /\ "completion" \notin po_args.response.keys

\* The positions of the tool_use blocks of the body's content, ascending.
RECURSIVE ToolUsePositions(_)
ToolUsePositions(n) ==
  IF n = 0 THEN <<>>
  ELSE IF po_args.response.content[n].type = "tool_use"
  THEN Append(ToolUsePositions(n - 1), n)
  ELSE ToolUsePositions(n - 1)

\* C30: on a messages body prepare_output returns exactly one tool call per
\* tool_use block, in the order of the blocks, each with the block's id,
\* name and input; blocks of other types produce none.
C30_OneToolCallPerToolUse ==
  (po_pc = "returned" /\ MessagesBody)
  => LET ps == ToolUsePositions(Len(po_args.response.content))
     IN /\ Len(po_result.tool_calls) = Len(ps)
        /\ \A k \in 1..Len(ps) :
             /\ po_result.tool_calls[k].id = po_args.response.content[ps[k]].id
             /\ po_result.tool_calls[k].name
                  = po_args.response.content[ps[k]].name
             /\ po_result.tool_calls[k].args
                  = po_args.response.content[ps[k]].text

\* C30 witness: a body with two tool_use blocks around a text block has
\* been parsed to two tool calls in the blocks' order.
C30_Witness ==
  /\ po_pc = "returned" /\ MessagesBody
  /\ Len(po_args.response.content) = 3
  /\ Len(po_result.tool_calls) = 2
  /\ po_result.tool_calls[1].id = "id2" /\ po_result.tool_calls[2].id = "id1"

----------------------------------------------------------------------------
\* The request body the call returned, and the paths the call takes.
Body == rb_result.body
MessagesPath == rb_args.messages # <<>>
PromptPath == rb_args.prompt.some /\ rb_args.prompt.v # <<>>

\* The value the named max-token field is to hold when the max_tokens
\* argument counts as supplied: the argument, otherwise the value the model
\* parameters hold under the field name, otherwise 1024.
MaxTokenValue(field, supplied) ==
  IF supplied THEN rb_args.max_tokens.v
  ELSE IF field \in DOMAIN rb_args.model_kwargs
  THEN rb_args.model_kwargs[field]
  ELSE 1024

Carries(field, supplied) ==
  field \in DOMAIN Body /\ Body[field] = MaxTokenValue(field, supplied)

\* C27 as stated: the body of the messages-protocol provider always carries
\* a max-token field, 'max_tokens' on the messages path and
\* 'max_tokens_to_sample' on the legacy prompt path, holding the max_tokens
\* argument whenever one is supplied.
C27_Original ==
  (rb_pc = "returned" /\ rb_args.provider = "anthropic")
  => /\ MessagesPath => Carries("max_tokens", rb_args.max_tokens.some)
     /\ PromptPath => Carries("max_tokens_to_sample", rb_args.max_tokens.some)
     /\ \/ "max_tokens" \in DOMAIN Body
        \/ "max_tokens_to_sample" \in DOMAIN Body

\* C27 amended: on the messages path the body carries 'max_tokens' and on
\* the legacy prompt path 'max_tokens_to_sample', holding the max_tokens
\* argument when it is supplied and not 0, otherwise the value the model
\* parameters hold under that name, otherwise 1024; a call with neither
\* messages nor prompt gets no max-token field beyond the model parameters.
C27_MaxTokenField ==
  (rb_pc = "returned" /\ rb_args.provider = "anthropic")
  => LET supplied == rb_args.max_tokens.some /\ rb_args.max_tokens.v # 0
     IN /\ MessagesPath => Carries("max_tokens", supplied)
        /\ PromptPath => Carries("max_tokens_to_sample", supplied)
        /\ (~MessagesPath /\ ~PromptPath)
             => \A f \in {"max_tokens", "max_tokens_to_sample"} :
                  f \in DOMAIN Body
                  => /\ f \in DOMAIN rb_args.model_kwargs
                     /\ Body[f] = rb_args.model_kwargs[f]

\* C27 witness: a messages call with no max_tokens argument has returned a
\* body holding the model parameters' max_tokens of 7.
C27_Witness ==
  /\ rb_pc = "returned" /\ rb_args.provider = "anthropic"
  /\ MessagesPath /\ ~rb_args.max_tokens.some
  /\ "max_tokens" \in DOMAIN rb_args.model_kwargs
  /\ Body["max_tokens"] = 7

\* C27 witness of the argument 0: a prompt call with max_tokens = 0 has
\* returned a body holding max_tokens_to_sample = 1024.
C27_WitnessZero ==
  /\ rb_pc = "returned" /\ rb_args.provider = "anthropic"
  /\ PromptPath /\ rb_args.max_tokens = Some(0)
  /\ Body["max_tokens_to_sample"] = 1024

\* The max-token field name of each raw-prompt provider; ai21 has none.
RawMaxTokenField(p) ==
  IF p = "meta" THEN {"max_gen_len"}
  ELSE IF p = "ai21" THEN {}
  ELSE {"max_tokens"}

RawProviders == {"ai21", "cohere", "meta", "mistral", "deepseek", "writer"}

\* The fields a dict holds beyond the model parameters, which it holds
\* unchanged unless one of those fields replaces them.
Extends(d, added) ==
  /\ DOMAIN d = DOMAIN rb_args.model_kwargs \cup added
  /\ \A k \in DOMAIN rb_args.model_kwargs \ added :
       d[k] = rb_args.model_kwargs[k]

TemperatureField ==
  IF rb_args.temperature.some THEN {"temperature"} ELSE {}

\* The body of a raw-prompt provider, when the max_tokens argument counts
\* as supplied.
RawBodyShape(supplied) ==
  /\ rb_args.provider \in RawProviders
       => LET mt == IF supplied THEN RawMaxTokenField(rb_args.provider)
                    ELSE {}
          IN /\ Extends(Body, {"prompt"} \cup mt \cup TemperatureField)
             /\ Body["prompt"] = rb_args.prompt
             /\ \A f \in mt : Body[f] = rb_args.max_tokens.v
             /\ \A f \in TemperatureField : Body[f] = rb_args.temperature.v
  /\ rb_args.provider = "amazon"
       => /\ DOMAIN Body = {"inputText", "textGenerationConfig"}
          /\ Body["inputText"] = rb_args.prompt
          /\ LET cfg == Body["textGenerationConfig"]
                 mt == IF supplied THEN {"maxTokenCount"} ELSE {}
             IN /\ Extends(cfg, mt \cup TemperatureField)
                /\ \A f \in mt : cfg[f] = rb_args.max_tokens.v
                /\ \A f \in TemperatureField : cfg[f] = rb_args.temperature.v

\* C29 as stated: every supplied max_tokens is mapped to the provider's
\* field.
C29_Original ==
  rb_pc = "returned" => RawBodyShape(rb_args.max_tokens.some)

\* C29 amended: for raw-prompt providers the prompt is copied verbatim into
\* the prompt field and a supplied max_tokens other than 0 goes to
\* 'max_tokens' for cohere, mistral, deepseek and writer, 'max_gen_len' for
\* meta, 'maxTokenCount' nested with the model parameters and the
\* temperature under 'textGenerationConfig' for amazon, whose only other
\* top-level field is 'inputText', and to no field for ai21; a max_tokens
\* of 0 is mapped to no field.
C29_RawProviderFields ==
  rb_pc = "returned"
  => RawBodyShape(rb_args.max_tokens.some /\ rb_args.max_tokens.v # 0)

\* C29 witness: an amazon call with max_tokens 5, a temperature and model
\* parameters has returned the nested configuration.
C29_Witness ==
  /\ rb_pc = "returned" /\ rb_args.provider = "amazon"
  /\ rb_args.max_tokens = Some(5) /\ rb_args.temperature.some
  /\ rb_args.model_kwargs # EmptyDict
  /\ Body["textGenerationConfig"]["maxTokenCount"] = 5

\* C29 witness of the provider with no mapping: an ai21 call with
\* max_tokens 5 has returned a body of the prompt alone.
C29_WitnessAi21 ==
  /\ rb_pc = "returned" /\ rb_args.provider = "ai21"
  /\ rb_args.max_tokens = Some(5) /\ rb_args.model_kwargs = EmptyDict
  /\ DOMAIN Body = {"prompt"} \cup TemperatureField

----------------------------------------------------------------------------
\* The events of a messages stream the chunk shape is stated for.
IsMessageStart(e) == e.payload = "obj" /\ "type" \in e.keys /\ e.type = "message_start"
IsTextDeltaEvent(e) ==
  /\ e.payload = "obj" /\ "type" \in e.keys /\ e.type = "content_block_delta"
  /\ "delta" \in e.keys /\ e.btype = "text_delta"
IsMessageDelta(e) == e.payload = "obj" /\ "type" \in e.keys /\ e.type = "message_delta"

\* A chunk of string content, of list content, and a chunk with no metadata
\* and no tool-call chunk.
PlainContent(c, text) == c.shape = "str" /\ c.text = text /\ c.blocks = <<>>
ListContent(c, blocks) == c.shape = "list" /\ c.blocks = blocks
Bare(c) == c.info_keys = {} /\ c.tool_call_chunks = <<>>

\* The chunk has the shape stated for the event it was built from.
ShapedFor(c, e, coerce) ==
  /\ IsMessageStart(e)
       => /\ c.kind = "ai" /\ Bare(c)
          /\ IF coerce THEN PlainContent(c, <<>>) ELSE ListContent(c, <<>>)
  /\ IsTextDeltaEvent(e)
       => /\ c.kind = "ai" /\ Bare(c)
          /\ IF coerce THEN PlainContent(c, e.text)
             ELSE ListContent(c, <<[type |-> "text", index |-> e.index,
                                    text |-> e.text, id |-> "",
                                    name |-> ""]>>)
  /\ IsMessageDelta(e)
       => /\ c.kind = "ai" /\ PlainContent(c, <<>>)
          /\ c.tool_call_chunks = <<>>
          /\ c.info_keys = {"stop_reason", "stop_sequence"}
          /\ c.stop_reason = e.stop_reason

\* Every chunk the decoder has put out for a message_start, text_delta or
\* message_delta event has the stated shape.
C28_Shapes ==
  messages_api
  => \A i \in 1..Len(emitted) :
       emitted[i].kind = "ai"
       => ShapedFor(emitted[i], stream[emitted[i].ev],
                    coerce_content_to_string)

\* A step that reads such an event and does not raise puts out one chunk,
\* built from that event.
C28_Yields ==
  (/\ messages_api /\ Reads /\ pc' # "error"
   /\ IsMessageStart(ReadEvent) \/ IsTextDeltaEvent(ReadEvent)
        \/ IsMessageDelta(ReadEvent))
  => /\ Len(emitted') = Len(emitted) + 1
     /\ emitted'[Len(emitted')].ev = Len(stream')
     /\ emitted'[Len(emitted')].kind = "ai"

\* C28: in a messages-protocol stream, with coerce_content_to_string set
\* message_start yields empty string content and text_delta the plain delta
\* text; with the flag clear message_start yields an empty block list and
\* text_delta a single block {type text, the event's index, the delta
\* text}; message_delta yields a chunk of empty content carrying
\* stop_reason and stop_sequence in both modes.
C28_ChunkShapeByFlag == [](C28_Shapes) /\ [][C28_Yields]_vars

\* C28 witness: with the flag clear the decoder has put out the empty block
\* list of message_start, the tagged block of a text_delta at index 1 and
\* the metadata chunk of message_delta.
C28_Witness ==
  /\ messages_api /\ ~coerce_content_to_string /\ Len(emitted) = 3
  /\ IsMessageStart(stream[emitted[1].ev]) /\ emitted[1].shape = "list"
  /\ IsTextDeltaEvent(stream[emitted[2].ev]) /\ emitted[2].blocks[1].index = 1
  /\ IsMessageDelta(stream[emitted[3].ev])
  /\ emitted[3].stop_reason = "end_turn"

\* C28 witness of the flag set: the decoder has put out the plain text of a
\* text_delta.
C28_WitnessPlain ==
  /\ messages_api /\ coerce_content_to_string /\ Len(emitted) >= 1
  /\ IsTextDeltaEvent(stream[emitted[1].ev])
  /\ emitted[1].shape = "str" /\ emitted[1].text = TB

----------------------------------------------------------------------------
\* C31: on the synchronous streaming path an attached observer is notified
\* of a guardrail intervention as soon as a delivered non-message chunk's
\* metadata indicates one while guardrail tracing is enabled, as on the
\* non-streamed path.
C31_StreamGuardrailNotified ==
  (iv_call.path = "stream" /\ iv_call.run_manager /\ iv_signals > 0)
  => \E i \in 1..Len(iv_reports) : iv_reports[i] = "guardrail"

----------------------------------------------------------------------------
\* What the observer has received in the current call.
Reported(what) == \E i \in 1..Len(iv_reports) : iv_reports[i] = what

\* C34: on the non-streamed path on_llm_error is invoked at most once per
\* call: a failure notification and a guardrail notification never both
\* occur, a failure notification goes with the error being raised and a
\* guardrail notification with a normal return.
C34_OneNotificationPerCall ==
  iv_call.path = "invoke"
  => /\ Len(iv_reports) <= 1
     /\ Reported("error")
          => /\ iv_pc = "raised"
             /\ iv_outcome \in {"transport_error", "parse_error"}
     /\ Reported("guardrail") => iv_pc = "returned" /\ iv_outcome = "ok"
     /\ (iv_pc = "raised" /\ iv_call.run_manager) => Reported("error")

\* C34 witness: a non-streamed call whose response could not be parsed has
\* raised after one failure notification, although the body was one of a
\* guardrail intervention under tracing.
C34_Witness ==
  /\ iv_call.path = "invoke" /\ iv_call.run_manager
  /\ iv_outcome = "parse_error" /\ iv_pc = "raised"
  /\ self_guardrail_trace /\ iv_intervened
  /\ iv_reports = <<"error">>

\* The providers with a stop-sequence field.
StopProviders == {"anthropic", "amazon", "ai21", "cohere", "mistral"}

\* C37: a streaming call, synchronous or asynchronous, that passes stop
\* sequences for a provider with no stop-sequence field fails before the
\* transport is invoked: no request is sent, no event is consumed and no
\* chunk is produced.
C37_UnsupportedStopFailsFirst ==
  ( /\ iv_call.path \in {"stream", "astream"}
    /\ iv_call.stop.some /\ iv_call.stop.v # <<>>
    /\ self_provider \notin StopProviders )
  => /\ iv_pc = "raised" /\ iv_outcome = "value_error"
     /\ iv_attempts = 0 /\ iv_body = EmptyDict
     /\ iv_nchunks = 0 /\ iv_reports = <<>>

\* C37 witness: an asynchronous streaming call with a stop sequence on a
\* meta instance has raised.
C37_Witness ==
  /\ iv_call.path = "astream" /\ iv_call.stop = Some(<<"END">>)
  /\ self_provider = "meta"
  /\ iv_pc = "raised" /\ iv_attempts = 0

----------------------------------------------------------------------------
\* A content_block_delta event whose delta is of a type the decoder has no
\* branch for.
IsUnknownDelta(e) ==
  /\ e.payload = "obj" /\ "type" \in e.keys /\ e.type = "content_block_delta"
  /\ "delta" \in e.keys
  /\ e.btype \notin {"", "text_delta", "input_json_delta", "thinking_delta",
                     "signature_delta"}

\* C35: in a messages-protocol stream a content_block_delta event of an
\* unknown delta type is handled without error: the step that reads it puts
\* out nothing and the decoder goes on to the next event.
C35_UnknownDeltaSkipped ==
  [][ (messages_api /\ Reads /\ IsUnknownDelta(ReadEvent))
      => /\ pc' = "loop" /\ term' = term
         /\ emitted' = emitted ]_vars

----------------------------------------------------------------------------
(***************************************************************************)
(* The synchronous decoder under a consumer that keeps calling next()      *)
(* unless it abandons the generator: a for loop over the generator pulls   *)
(* again after every chunk, and the generator's own code runs on between   *)
(* two yields.                                                             *)
(***************************************************************************)
GeneratorStep == Start \/ NextEvent \/ EndOfStream \/ Resume \/ Return

SpecDrain == Spec /\ WF_vars(Pull) /\ WF_vars(GeneratorStep)

\* A step reads at most the one next event of the transport, and what has
\* been read stays read: nothing is read twice and the stream is never
\* started again.
SinglePass ==
  /\ Len(stream') + remaining' = Len(stream) + remaining
  /\ Len(stream') \in {Len(stream), Len(stream) + 1}
  /\ SubSeq(stream', 1, Len(stream)) = stream

\* The decoder ended on the exhausted transport: it ended normally, every
\* event was read and no usage chunk was put out.
ExhaustedNoUsage ==
  term = "exhausted"
  => /\ pc = "done" /\ remaining = 0
     /\ \A i \in 1..Len(emitted) : emitted[i].kind # "usage"

\* C33: for every finite transport event sequence prepare_output_stream
\* ends, unless its consumer abandons it, after reading each event at most
\* once and never again; a decoder that ends on the exhausted stream ends
\* normally and puts out no terminal usage chunk.
C33_SinglePassTerminates ==
  /\ [][SinglePass]_vars
  /\ [](ExhaustedNoUsage)
  /\ <>(pc \in {"done", "error"} \/ abandoned)

\* C33 witness: a stream of three events has been read to its end with no
\* termination condition fired, and the decoder has ended.
C33_Witness ==
  /\ pc = "done" /\ term = "exhausted" /\ ~abandoned
  /\ Len(stream) = 3 /\ Len(emitted) >= 2

----------------------------------------------------------------------------
(***************************************************************************)
(* BedrockLLM._call in streaming mode: the chunks of the drained stream    *)
(* are folded by _combine_generation_info_for_llm_result.                  *)
(***************************************************************************)
\* Lines 683-689 and 1296-1298: provider_stop_reason_key_map.get(provider,
\* "stop_reason").
provider_stop_reason_code(p) ==
  CASE p \in {"anthropic", "mistral"} -> "stop_reason"
    [] p = "amazon" -> "completionReason"
    [] p = "ai21" -> "finishReason"
    [] p = "cohere" -> "finish_reason"
    [] OTHER -> "stop_reason"

\* chunk.generation_info as the fold reads it: the invocation metrics when
\* the chunk holds that key, and the stop reason when the provider's
\* stop-reason field is 'stop_reason' and the chunk holds it.  The chunk of
\* _get_invocation_metrics_chunk holds the key 'usage_metadata' alone.
generation_info_of(c, p) ==
  [keys |-> (IF "metrics" \in c.info_keys THEN {"metrics"} ELSE {})
            \cup (IF /\ provider_stop_reason_code(p) = "stop_reason"
                     /\ "stop_reason" \in c.info_keys
                  THEN {"stop"} ELSE {}),
   usage_keys |-> {}, input_tokens |-> <<>>, output_tokens |-> <<>>,
   metrics_keys |-> {"inputTokenCount", "outputTokenCount"},
   inputTokenCount |-> c.metrics.inputTokenCount,
   outputTokenCount |-> c.metrics.outputTokenCount,
   stop |-> c.stop_reason, stop_null |-> FALSE]

\* Lines 1310-1317: llm_output of the chunks put out so far.
call_llm_output ==
  combine_generation_info_for_llm_result(
    [i \in 1..Len(emitted) |-> generation_info_of(emitted[i], provider)],
    TRUE)

\* The token counts the invocation metrics of an event hold.
EventInputCount(e) ==
  IF e.payload = "obj" /\ "metrics" \in e.keys
  THEN e.metrics.inputTokenCount ELSE 0
EventOutputCount(e) ==
  IF e.payload = "obj" /\ "metrics" \in e.keys
  THEN e.metrics.outputTokenCount ELSE 0

\* C32: when a raw-prompt stream has been drained and its chunks folded,
\* the invocation metrics of each event read count exactly once in the
\* combined usage: the terminal usage chunk adds nothing a second time and
\* no event's counts are lost.
C32_MetricsCountedOnce ==
  (pc = "done" /\ ~messages_api)
  => /\ call_llm_output.prompt_tokens
          = Total([i \in 1..Len(stream) |-> EventInputCount(stream[i])])
     /\ call_llm_output.completion_tokens
          = Total([i \in 1..Len(stream) |-> EventOutputCount(stream[i])])

----------------------------------------------------------------------------
(***************************************************************************)
(* _human_assistant_format applied to its own output.                      *)
(***************************************************************************)
\* C36: the alternation formatter is idempotent on its own output:
\* formatting the text a call returned gives that text back, for every
\* input.
C36_FormatIdempotent ==
  fmt_pc = "returned"
  => human_assistant_format(fmt_out.text).text = fmt_out.text

\* A call that made both silent corrections and closed an unanswered Human
\* turn, so that its output differs from its input in every way the
\* formatter can change a text.
C36_Witness ==
  /\ fmt_pc = "returned"
  /\ fmt_prepended
  /\ Len(fmt_out.text) > Len(fmt_norm)
  /\ fmt_norm # fmt_in
  /\ human_assistant_format(fmt_out.text).text = fmt_out.text

====
